---- MODULE Spec2Model ----
(***************************************************************************)
(* Choreography monitoring with Step Functions: the event_handler Lambda   *)
(* (Event Correlator), the initialize_workflow Lambda (Workflow Initiator),*)
(* the task-token table (Token Store), the wait-states built by            *)
(* ChoreographyState, and the car workflow of ChoreographyInsightsStack.   *)
(*                                                                         *)
(* Every Lambda invocation is modelled at the granularity of its awaits:   *)
(* the code between two awaits runs without interleaving (one JS event     *)
(* loop turn), each awaited AWS call is one step.                          *)
(***************************************************************************)
EXTENDS Integers, Sequences, FiniteSets, TLC

\* ------------------------------------------------------------------ bounds

\* Task tokens an execution may be issued (wait-state entries per instance).
MaxTokens == 9

\* Injected failures of AWS calls in one behaviour.
MaxFaults == 1

\* ------------------------------------------------------------- value space

\* An attribute a DynamoDB item does not carry (undefined in the handler).
None == <<>>

Default == "Default"

Entities == {"car-1", "car-2", "order-1"}

\* Concurrent executions of the event_handler Lambda (reserved concurrency
\* allows up to 20; two are enough for every pairwise interleaving).
Handlers == {"h1", "h2"}

\* The entities of the order choreography.
OrderEntities == {"order-1"}

\* The ARN Step Functions gives the execution named `name`.
ExecutionArn(name) == <<"arn", name>>

\* The task token of the n-th wait-state entry of the execution named `name`.
TaskToken(name, n) == <<"token", name, n>>

\* ------------------------------------------------ ChoreographyStateBuilder

\* _name before the first withName.
Unnamed == "-"

\* props.entityId left out.
NoPath == "-"

\* JsonPath.stringAt("$$.Execution.Input.detail.id")
DetailIdPath == "$$.Execution.Input.detail.id"

\* JsonPath.stringAt("$$.Execution.Input.id"), the entityId the stack hands
\* to the builder.
InputIdPath == "$$.Execution.Input.id"

\* The entityId field of the execution input.
EntityIdPath == "$$.Execution.Input.entityId"

Paths == {DetailIdPath, InputIdPath, EntityIdPath}

\* ChoreographyStateBuilderProps (the table aside): entityId is optional.
BuilderProps == {[entityId |-> p] : p \in {NoPath, InputIdPath}}

\* No call of a setter since the last build().
NoCall == "-"

NoCalls == [withName |-> NoCall, withEntityId |-> NoCall, withEventName |-> NoCall]

\* new ChoreographyStateBuilder(scope, id, props): the field initialisers
\* and the constructor, which reads props.taskTokenTable alone. Kept to state
\* properties: `props`, `built` (the states built so far), `pending` (the
\* last argument of each setter called since the last build) and `after`
\* (what `pending` was at each build).
NewBuilder(props) ==
    [props |-> props, name |-> Unnamed, entityId |-> DetailIdPath,
     eventName |-> Default, built |-> <<>>, pending |-> NoCalls,
     after |-> <<>>]

\* A reset that clears _name as well.
ResetClearsName(b) ==
    [b EXCEPT !.name = Unnamed, !.entityId = DetailIdPath, !.eventName = Default]

\* A reset that leaves _eventName as the last withEventName set it.
ResetKeepsEventName(b) == [b EXCEPT !.entityId = DetailIdPath]

\* A reset that leaves _entityId as the last withEntityId set it.
ResetKeepsEntityId(b) == [b EXCEPT !.eventName = Default]

\* reset(): _entityId and _eventName back to their defaults, _name kept.
Reset(b) == [b EXCEPT !.entityId = DetailIdPath, !.eventName = Default]

WithName(b, name) == [b EXCEPT !.name = name]

WithEntityId(b, entityId) == [b EXCEPT !.entityId = entityId]

\* A withEventName that sets nothing.
WithEventNameIgnored(b, eventName) == b

WithEventName(b, eventName) == [b EXCEPT !.eventName = eventName]

\* new ChoreographyState(scope, builder): the state's id and the Key of its
\* updateItem.waitForTaskToken, read from the builder's getters.
ChoreographyState(b) ==
    [name |-> b.name, entityId |-> b.entityId, eventName |-> b.eventName]

\* build(): construct the state, reset, return the state.
Build(b) == Reset([b EXCEPT !.built = Append(@, ChoreographyState(b))])

\* builder.withName(name).build()
Named(name) ==
    <<[op |-> "withName", arg |-> name], [op |-> "build", arg |-> "-"]>>

\* builder.withName(name).withEventName(eventName).build()
NamedFor(name, eventName) ==
    <<[op |-> "withName", arg |-> name],
      [op |-> "withEventName", arg |-> eventName],
      [op |-> "build", arg |-> "-"]>>

\* The builder after one call.
Called(b, call) ==
    CASE call.op = "withName" ->
            [WithName(b, call.arg) EXCEPT !.pending.withName = call.arg]
      [] call.op = "withEntityId" ->
            [WithEntityId(b, call.arg) EXCEPT !.pending.withEntityId = call.arg]
      [] call.op = "withEventName" ->
            [WithEventName(b, call.arg) EXCEPT !.pending.withEventName = call.arg]
      [] call.op = "build" ->
            [Build(b) EXCEPT !.pending = NoCalls, !.after = Append(@, b.pending)]

\* The builder after a sequence of calls.
RECURSIVE CalledAll(_, _)
CalledAll(b, calls) ==
    IF calls = <<>> THEN b ELSE CalledAll(Called(b, Head(calls)), Tail(calls))

\* The builder calls of orderWorkflowDefinition and carWorkflowDefinition.
OrderBuilderCalls ==
    Named("WaitForConfirmation") \o Named("WaitForServiceProviderAccept")
        \o Named("WaitForServiceProviderDelivery") \o Named("WaitForCanceled")

CarBuilderCalls ==
    Named("Announced")
        \o NamedFor("Clean", "Car Cleaned") \o NamedFor("Repair", "Car Repaired")
        \o NamedFor("Evaluate", "Car Priced")
        \o Named("ReadyForSale") \o Named("OnSale") \o Named("Reserved")
        \o NamedFor("Delivery", "Car Delivered")
        \o NamedFor("Invoice", "Invoice Sent")

\* The stack's builder once both workflow definitions are built.
StackBuilder ==
    CalledAll(NewBuilder([entityId |-> InputIdPath]),
              OrderBuilderCalls \o CarBuilderCalls)

\* The ChoreographyState the stack built under `name`.
BuiltState(name) ==
    LET n == CHOOSE i \in 1..Len(StackBuilder.built) :
                 StackBuilder.built[i].name = name
    IN  StackBuilder.built[n]

\* ------------------------------------------------- car workflow definition

PreparationKeys == {"Car Cleaned", "Car Repaired", "Car Priced"}

SoldKeys == {"Car Delivered", "Invoice Sent"}

BranchKeys == PreparationKeys \cup SoldKeys

AllKeys == BranchKeys \cup {Default}

WaitNodes == {"Announced", "ReadyForSale", "OnSale", "Reserved"}

ParallelNodes == {"InPreparation", "Sold"}

\* The wait-states of orderWorkflowDefinition, all sequential.
OrderWaitNodes ==
    {"WaitForConfirmation", "WaitForServiceProviderAccept",
     "WaitForServiceProviderDelivery", "WaitForCanceled"}

\* The ChoreographyStates of a node, by name: the branches of a Parallel
\* state, or the sequential wait-state itself.
NodeStates(node) ==
    CASE node = "InPreparation" -> {"Clean", "Repair", "Evaluate"}
      [] node = "Sold" -> {"Delivery", "Invoice"}
      [] node \in WaitNodes \cup OrderWaitNodes -> {node}
      [] OTHER -> {}

CarStateNames ==
    UNION {NodeStates(node) : node \in WaitNodes \cup ParallelNodes}

StateNames == CarStateNames \cup OrderWaitNodes

\* The eventName each ChoreographyState of a node writes its token under:
\* the builder's "Default" unless withEventName was called.
NodeKeys(node) == {BuiltState(s).eventName : s \in NodeStates(node)}

\* The order workflow with a WaitForCanceled that takes Order Delivered for
\* the delivery of the order.
OrderChoiceNextDeliversRejected(node, ev) ==
    CASE node = "WaitForConfirmation" ->
            IF ev.eventName = "Order Confirmed"
            THEN "WaitForServiceProviderAccept"
            ELSE "UnexpectedTransition"
      [] node = "WaitForServiceProviderAccept" ->
            IF ev.eventName = "Order Accepted"
            THEN "WaitForServiceProviderDelivery"
            ELSE IF ev.eventName = "Order Rejected" THEN "WaitForCanceled"
            ELSE "UnexpectedTransition"
      [] OTHER ->
            IF ev.eventName = "Order Delivered" THEN "OrderCompleted"
            ELSE IF ev.eventName = "Order Canceled" THEN "OrderCanceled"
            ELSE "UnexpectedTransition"

\* Choice states of orderWorkflowDefinition ("Confirmed?", "Accepted?",
\* "Delivered?", "Canceled?"): where the output of a resumed wait-state (the
\* event) leads.
OrderChoiceNext(node, ev) ==
    CASE node = "WaitForConfirmation" ->
            IF ev.eventName = "Order Confirmed"
            THEN "WaitForServiceProviderAccept"
            ELSE "UnexpectedTransition"
      [] node = "WaitForServiceProviderAccept" ->
            IF ev.eventName = "Order Accepted"
            THEN "WaitForServiceProviderDelivery"
            ELSE IF ev.eventName = "Order Rejected" THEN "WaitForCanceled"
            ELSE "UnexpectedTransition"
      [] node = "WaitForServiceProviderDelivery" ->
            IF ev.eventName = "Order Delivered" THEN "OrderCompleted"
            ELSE IF ev.eventName = "Order Canceled" THEN "OrderCanceled"
            ELSE "UnexpectedTransition"
      [] OTHER ->
            IF ev.eventName = "Order Canceled" THEN "OrderCanceled"
            ELSE "UnexpectedTransition"

\* Choice states of carWorkflowDefinition: where the output of a resumed
\* sequential wait-state (the event) leads. "Fail" is Unexpected Transition,
\* "Rejected" the Succeed state. The wait-states of the order workflow lead
\* to its own Choice states.
ChoiceNext(node, ev) ==
    CASE node = "Announced" ->
            IF ev.eventName = "Inspection Completed" /\ ev.result = "Rejected"
            THEN "Rejected"
            ELSE IF ev.eventName = "Inspection Completed" /\ ev.result = "Success"
            THEN "InPreparation"
            ELSE "Fail"
      [] node = "ReadyForSale" ->
            IF ev.eventName = "Car Published" THEN "OnSale" ELSE "Fail"
      [] node = "OnSale" ->
            IF ev.eventName = "Car Unpublished" THEN "ReadyForSale"
            ELSE IF ev.eventName = "Car Reserved" THEN "Reserved"
            ELSE "Fail"
      [] node = "Reserved" ->
            IF ev.eventName = "Car Unreserved" THEN "OnSale"
            ELSE IF ev.eventName = "Car Sold" THEN "Sold"
            ELSE "Fail"
      [] node \in OrderWaitNodes -> OrderChoiceNext(node, ev)
      [] OTHER -> "Fail"

\* The state following a completed Parallel state.
ParallelNext(node) ==
    IF node = "InPreparation" THEN "ReadyForSale" ELSE "End"

\* ------------------------------------------------- Choreography (validator)

\* A state of a definition: its class, its outgoing transitions in the order
\* State.outgoingTransitions lists them, and the start states of its
\* branches (a Parallel state's sub-graphs). "Wait" is a ChoreographyState,
\* "Task" any other TaskStateBase.
StateOfKind(kind, next, branches) ==
    [kind |-> kind, next |-> next, branches |-> branches]

Kinds == {"Wait", "Task", "Choice", "Parallel", "Succeed", "Fail", "Pass"}

\* carWorkflowDefinition as the graph handed to new Choreography.
CarDefinition ==
    [start |-> "Announced",
     states |->
        [s \in CarStateNames \cup {"Is Accepted?", "Rejected", "InPreparation",
                                "Is On Sale?", "Is Reserved?", "Is Sold?",
                                "Sold", "Unexpected Transition"} |->
            CASE s = "Announced" -> StateOfKind("Wait", <<"Is Accepted?">>, {})
              [] s = "Is Accepted?" ->
                    StateOfKind("Choice", <<"Unexpected Transition", "Rejected",
                                            "InPreparation">>, {})
              [] s = "Rejected" -> StateOfKind("Succeed", <<>>, {})
              [] s = "InPreparation" ->
                    StateOfKind("Parallel", <<"ReadyForSale">>,
                                NodeStates("InPreparation"))
              [] s = "ReadyForSale" -> StateOfKind("Wait", <<"Is On Sale?">>, {})
              [] s = "Is On Sale?" ->
                    StateOfKind("Choice", <<"Unexpected Transition", "OnSale">>, {})
              [] s = "OnSale" -> StateOfKind("Wait", <<"Is Reserved?">>, {})
              [] s = "Is Reserved?" ->
                    StateOfKind("Choice", <<"Unexpected Transition",
                                            "ReadyForSale", "Reserved">>, {})
              [] s = "Reserved" -> StateOfKind("Wait", <<"Is Sold?">>, {})
              [] s = "Is Sold?" ->
                    StateOfKind("Choice", <<"Unexpected Transition", "OnSale",
                                            "Sold">>, {})
              [] s = "Sold" -> StateOfKind("Parallel", <<>>, NodeStates("Sold"))
              [] s = "Unexpected Transition" -> StateOfKind("Fail", <<>>, {})
              [] OTHER -> StateOfKind("Wait", <<>>, {})]]

\* State.outgoingTransitions(): the next state, the default choice and the
\* choices; the branches of a Parallel state are no transitions.
OutgoingTransitions(def, s) == def.states[s].next

\* State.findReachableStates(start): the states reached through transitions,
\* in the order the queue visits them.
RECURSIVE FindReachable(_, _, _, _)
FindReachable(def, queue, visited, ret) ==
    IF queue = <<>> THEN ret
    ELSE IF Head(queue) \in visited
    THEN FindReachable(def, Tail(queue), visited, ret)
    ELSE FindReachable(def, Tail(queue) \o OutgoingTransitions(def, Head(queue)),
                       visited \cup {Head(queue)}, Append(ret, Head(queue)))

FindReachableStates(def, start) == FindReachable(def, <<start>>, {}, <<>>)

\* (s instanceof TaskStateBase) && !(s instanceof ChoreographyState)
NotAllowed(def, s) == def.states[s].kind = "Task"

NoError == "-"

\* checkDefinition(definition): the id of the state the Error names, the
\* first not allowed among the states found; NoError if there is none.
CheckDefinition(def) ==
    LET states == FindReachableStates(def, def.start)
        found == SelectSeq(states, LAMBDA s : NotAllowed(def, s))
    IN  IF found = <<>> THEN NoError ELSE Head(found)

\* ------------------------------------------------------- event patterns

\* Events put on the bus: source, detail-type and the detail's fields.
DetailTypes == {"Car Announced", "Car Cleaned", "Car Sold"}

BusEvents ==
    {[source |-> s, detailType |-> n,
      detail |-> [id |-> i, vin |-> v, result |-> "-"]] :
        s \in {"car", "order"}, n \in DetailTypes,
        i \in {"car-1"}, v \in {"vin-1"}}

NoBusEvent ==
    [source |-> "-", detailType |-> "-",
     detail |-> [id |-> "-", vin |-> "-", result |-> "-"]]

\* EventPattern { source: [src], detailType: names }
Exactly(src, names) ==
    [source |-> {src}, detailType |-> names, anythingBut |-> FALSE]

\* EventPattern { source: [src], detailType: [{ "anything-but": names }] }
AnythingBut(src, names) ==
    [source |-> {src}, detailType |-> names, anythingBut |-> TRUE]

\* The bus matches an event against a rule's eventPattern.
Matches(pattern, ev) ==
    /\ ev.source \in pattern.source
    /\ IF pattern.anythingBut
       THEN ev.detailType \notin pattern.detailType
       ELSE ev.detailType \in pattern.detailType

\* Paths into the event of the bus.
EventIdPath == "$.detail.id"

EventVinPath == "$.detail.vin"

\* EventField.fromPath(path), resolved by the bus on the matched event.
FromPath(path, ev) ==
    IF path = EventIdPath THEN ev.detail.id ELSE ev.detail.vin

\* The car Choreography's startEvent and events.
CarStartEvent ==
    [pattern |-> Exactly("car", {"Car Announced"}), entityIdJsonPath |-> NoPath]

CarEvents ==
    << [pattern |-> AnythingBut("car", {"Car Announced"}),
        entityIdJsonPath |-> NoPath] >>

\* new Choreography(scope, id, props) after super(scope, id).
NewChoreography(def) ==
    [definition |-> def, startEvent |-> CarStartEvent, events |-> CarEvents,
     pc |-> "check", error |-> NoError, stateMachine |-> FALSE]

\* The constructor after checkDefinition.
Checked(c) ==
    IF CheckDefinition(c.definition) = NoError
    THEN [c EXCEPT !.pc = "create"]
    ELSE [c EXCEPT !.pc = "threw", !.error = CheckDefinition(c.definition)]

\* The constructor after new StateMachine(this, "StateMachine", ...).
Created(c) == [c EXCEPT !.pc = "created", !.stateMachine = TRUE]

\* The stack's car Choreography, constructed.
StackChoreography == Created(Checked(NewChoreography(CarDefinition)))

\* --------------------------------------------------- ChoreographyInsights

\* The construct after its constructor: no rule yet, no choreography bound.
\* put and invocations hold the last event put on the bus and the target
\* invocations the bus made for it.
NewInsights ==
    [rules |-> {}, choreographyList |-> <<>>, error |-> NoError,
     put |-> NoBusEvent, invocations |-> {}]

\* getEntityId(event): the event's entityIdJsonPath, '$.detail.id' without.
GetEntityId(event) ==
    IF event.entityIdJsonPath # NoPath THEN event.entityIdJsonPath
    ELSE EventIdPath

\* new Rule(this, `${id}StartEventRule`, ...), target initWorkflowTask.
StartEventRule(c) ==
    [id |-> "StartEventRule", eventPattern |-> c.startEvent.pattern,
     target |-> "InitWorkflowHandler", entityId |-> GetEntityId(c.startEvent)]

\* new Rule(this, `${id}NextEventRule`, ...), target eventHandlerTask: the
\* pattern and the entityId path of choreography.events[0].
NextEventRule(c) ==
    [id |-> "NextEventRule", eventPattern |-> c.events[1].pattern,
     target |-> "EventHandler", entityId |-> GetEntityId(c.events[1])]

\* addChoreography(choreography); with an empty events list the read of
\* choreography.events[0].pattern throws after the first rule is made.
AddChoreography(ins, c) ==
    IF c.events = <<>>
    THEN [ins EXCEPT !.rules = @ \cup {StartEventRule(c)},
                     !.error = "TypeError"]
    ELSE [ins EXCEPT !.rules = @ \cup {StartEventRule(c), NextEventRule(c)},
                     !.choreographyList = Append(@, c)]

\* The invocation a rule makes of its target for a matched event: the
\* Correlator receives input {detail, eventName, entityId}, the Initiator
\* {stateMachineArn, name, input: {detail, eventName, entityId}}.
TargetInput(rule, ev) ==
    [target |-> rule.target,
     name   |-> IF rule.target = "InitWorkflowHandler"
                THEN FromPath(rule.entityId, ev) ELSE "-",
     input  |-> [detail |-> ev.detail, eventName |-> ev.detailType,
                 entityId |-> FromPath(rule.entityId, ev)]]

\* The bus takes an event and invokes the target of every rule it matches.
PutEvents(ins, ev) ==
    [ins EXCEPT !.put = ev,
                !.invocations =
                    {TargetInput(r, ev) :
                        r \in {q \in ins.rules : Matches(q.eventPattern, ev)}}]

\* The stack's construct with the car Choreography bound.
StackInsights == AddChoreography(NewInsights, StackChoreography)

\* ---------------------------------------------------------------- events

EventNames ==
    {"Inspection Completed", "Car Cleaned", "Car Repaired", "Car Priced",
     "Car Published", "Car Scratched", Default}

\* The car choreography's events from the sale on.
LaterEventNames ==
    {"Car Unpublished", "Car Reserved", "Car Unreserved", "Car Sold",
     "Car Delivered", "Invoice Sent"}

\* The order choreography's events, "Order Returned" one its workflow
\* expects nowhere.
OrderEventNames ==
    {"Order Confirmed", "Order Accepted", "Order Rejected", "Order Delivered",
     "Order Canceled", "Order Returned"}

\* The input of event_handler: entityId, eventName and the detail (of which
\* the workflow reads only $.detail.result).
Events ==
    {[entityId |-> e, eventName |-> n, result |-> r] :
        e \in Entities,
        n \in EventNames \cup LaterEventNames \cup OrderEventNames, r \in {"-"}}
    \cup
    {[entityId |-> e, eventName |-> "Inspection Completed", result |-> r] :
        e \in Entities, r \in {"Success", "Rejected"}}

NoEvent == [entityId |-> "-", eventName |-> "-", result |-> "-"]

\* output: JSON.stringify(event), the string handed to SendTaskSuccess.
Output(ev) == <<"json", ev.entityId, ev.eventName, ev.result>>

\* The engine reads the output back as the state's JSON result.
ParseOutput(output) ==
    [entityId |-> output[2], eventName |-> output[3], result |-> output[4]]

\* cause: `Unexpected event ${event.eventName} for EntityId: ${event.entityId}.`
Cause(ev) == <<"Unexpected event", ev.eventName, "for EntityId", ev.entityId>>

\* ------------------------------------------------------------------ state

VARIABLES
    store,      \* task-token table: entityId -> set of items
    exec,       \* Step Functions: execution name -> execution
    corr,       \* the event_handler invocations, per handler slot
    init,       \* the initialize_workflow invocation
    faults,     \* failures injected so far
    builder,    \* the ChoreographyStateBuilder of the stack
    choreography, \* the Choreography construct
    insights,   \* the ChoreographyInsights construct and its bus
    simulation  \* WorkflowSimulationStateMachine: the next event to publish

vars ==
    <<store, exec, corr, init, faults, builder, choreography, insights,
      simulation>>

\* ------------------------------------------------------------ Token Store

\* A put that replaces the item keyed (entityId, eventName) by one that
\* carries the written attribute alone.
UpdateItemReplace(items, key, attr, value) ==
    {it \in items : it.eventName # key}
        \cup {[[eventName |-> key, taskToken |-> None,
                 executionArn |-> None] EXCEPT ![attr] = value]}

\* A write that adds an item without looking for the key.
UpdateItemInsert(items, key, attr, value) ==
    items \cup {[[eventName |-> key, taskToken |-> None,
                  executionArn |-> None] EXCEPT ![attr] = value]}

\* DynamoDB updateItem with "SET attr = value" on the item keyed
\* (entityId, eventName): an upsert that keeps the item's other attributes.
UpdateItem(items, key, attr, value) ==
    IF \E it \in items : it.eventName = key
    THEN {IF it.eventName = key THEN [it EXCEPT ![attr] = value] ELSE it :
             it \in items}
    ELSE items \cup {[[eventName |-> key, taskToken |-> None,
                       executionArn |-> None] EXCEPT ![attr] = value]}

\* A delete of every item of the entity.
DeleteItemPartition(items, key) == {}

\* A delete by partition key that spares only the Default item.
DeleteItemSiblings(items, key) == {it \in items : it.eventName = Default}

\* DynamoDB deleteItem on the key (entityId, eventName).
DeleteItem(items, key) == {it \in items : it.eventName # key}

\* The event names of the workflows in the order of their UTF-8 bytes, the
\* order of DynamoDB's string sort keys.
KeyOrder ==
    << "Car Announced", "Car Cleaned", "Car Delivered", "Car Priced",
       "Car Published", "Car Repaired", "Car Reserved", "Car Scratched",
       "Car Sold", "Car Unpublished", "Car Unreserved", "Default",
       "Inspection Completed", "Invoice Sent" >>

KeyRank(key) ==
    IF \E i \in 1..Len(KeyOrder) : KeyOrder[i] = key
    THEN CHOOSE i \in 1..Len(KeyOrder) : KeyOrder[i] = key
    ELSE 0

\* DynamoDB query on the partition key: the items of the entity in
\* ascending order of the sort key eventName.
RECURSIVE QueryResult(_)
QueryResult(items) ==
    IF items = {} THEN <<>>
    ELSE LET first == CHOOSE it \in items :
                         \A other \in items :
                            KeyRank(it.eventName) <= KeyRank(other.eventName)
         IN  <<first>> \o QueryResult(items \ {first})

\* Every order a list of the items can have.
RECURSIVE QueryOrders(_)
QueryOrders(items) ==
    IF items = {} THEN {<<>>}
    ELSE UNION {{<<it>> \o rest : rest \in QueryOrders(items \ {it})} :
                   it \in items}

\* -------------------------------------------------------- Workflow Engine

NoExecution ==
    [status |-> "none", node |-> "-", n |-> 0,
     br |-> [s \in StateNames |-> "off"], tok |-> [s \in StateNames |-> None]]

\* An execution positioned at `node`, its wait-states not yet entered.
AtNode(ex, node) ==
    IF node \in WaitNodes \cup OrderWaitNodes \cup ParallelNodes
    THEN [ex EXCEPT !.node = node,
             !.br = [s \in StateNames |->
                        IF s \in NodeStates(node) THEN "entering" ELSE "off"]]
    ELSE [ex EXCEPT !.node = node,
             !.br = [s \in StateNames |-> "off"],
             !.status = IF node \in {"Fail", "UnexpectedTransition"}
                       THEN "failed" ELSE "succeeded"]

\* The token is one the engine has issued, its task waiting or not.
TokenPendingEver(token) ==
    \E e \in Entities, s \in StateNames : exec[e].tok[s] = token

\* The token is that of a task still waiting for its callback.
TokenPending(token) ==
    \E e \in Entities, s \in StateNames :
        /\ exec[e].status = "running"
        /\ exec[e].br[s] = "waiting"
        /\ exec[e].tok[s] = token

\* A Parallel state taken to end with the first branch that completes.
ResumedFirstBranchEnds(token, output) ==
    LET ev == ParseOutput(output)
        waiting == {w \in Entities \X StateNames :
                       /\ exec[w[1]].status = "running"
                       /\ exec[w[1]].br[w[2]] = "waiting"
                       /\ exec[w[1]].tok[w[2]] = token}
        e == (CHOOSE w \in waiting : TRUE)[1]
        s == (CHOOSE w \in waiting : TRUE)[2]
        ex == [exec[e] EXCEPT !.br[s] = "done"]
    IN  IF waiting = {} THEN exec
        ELSE [exec EXCEPT ![e] =
                IF ex.node \in WaitNodes \cup OrderWaitNodes
                THEN AtNode(ex, ChoiceNext(ex.node, ev))
                ELSE AtNode(ex, ParallelNext(ex.node))]

\* The engine's state after a successful SendTaskSuccess(token, output):
\* the waiting task completes; a sequential wait-state hands the output to
\* its Choice, a Parallel state ends when its last branch has completed.
\* No task waits for the token: nothing is resumed.
Resumed(token, output) ==
    LET ev == ParseOutput(output)
        waiting == {w \in Entities \X StateNames :
                       /\ exec[w[1]].status = "running"
                       /\ exec[w[1]].br[w[2]] = "waiting"
                       /\ exec[w[1]].tok[w[2]] = token}
        e == (CHOOSE w \in waiting : TRUE)[1]
        s == (CHOOSE w \in waiting : TRUE)[2]
        ex == [exec[e] EXCEPT !.br[s] = "done"]
    IN  IF waiting = {} THEN exec
        ELSE [exec EXCEPT ![e] =
                IF ex.node \in WaitNodes \cup OrderWaitNodes
                THEN AtNode(ex, ChoiceNext(ex.node, ev))
                ELSE IF \A b \in NodeStates(ex.node) : ex.br[b] = "done"
                THEN AtNode(ex, ParallelNext(ex.node))
                ELSE ex]

\* A stopExecution that stops every running execution.
StoppedEvery(arn) ==
    [e \in Entities |->
        IF exec[e].status = "running"
        THEN [exec[e] EXCEPT !.status = "aborted"]
        ELSE exec[e]]

\* The engine's state after a successful StopExecution(arn).
Stopped(arn) ==
    [e \in Entities |->
        IF ExecutionArn(e) = arn /\ exec[e].status = "running"
        THEN [exec[e] EXCEPT !.status = "aborted"]
        ELSE exec[e]]

\* What a context path of the state's parameters evaluates to in the
\* execution the Initiator started for entity `e`, whose input is
\* { detail, eventName, entityId }; the input has no field `id`.
Resolved(path, e) == IF path \in {DetailIdPath, EntityIdPath} THEN e ELSE NoPath

\* The task run as a plain updateItem: the state is done once it has written.
RegisteredNoWait(ex, s, token) ==
    [ex EXCEPT !.n = @ + 1, !.tok[s] = token, !.br[s] = "done"]

\* The execution once the task of state `s` has written its token:
\* action updateItem.waitForTaskToken holds the state until the callback.
Registered(ex, s, token) ==
    [ex EXCEPT !.n = @ + 1, !.tok[s] = token, !.br[s] = "waiting"]

\* The ChoreographyState named `s` is entered: the engine issues a task token
\* and the task writes it under (entityId, eventName) with updateItem, then
\* waits; a parameter path without a value fails the execution.
EnterWaitState(e, s) ==
    /\ exec[e].status = "running"
    /\ exec[e].br[s] = "entering"
    /\ exec[e].n < MaxTokens
    /\ LET token == TaskToken(e, exec[e].n + 1)
           entityId == Resolved(BuiltState(s).entityId, e)
       IN  IF entityId = NoPath
           THEN /\ exec' = [exec EXCEPT ![e].status = "failed"]
                /\ store' = store
           ELSE /\ exec' = [exec EXCEPT ![e] = Registered(@, s, token)]
                /\ store' = [store EXCEPT ![entityId] =
                      UpdateItem(@, BuiltState(s).eventName, "taskToken", token)]
    /\ UNCHANGED <<corr, init, faults, builder, choreography,
                   insights, simulation>>

\* ------------------------------------------- event_handler (the Correlator)

IdleCorr ==
    [pc |-> "idle", event |-> NoEvent, items |-> {}, mode |-> "-",
     taskToken |-> None, executionArn |-> None, ret |-> "-", calls |-> <<>>]

\* One AWS call of an invocation, as the caller sees it.
Call(op, arg, data, ok) == [op |-> op, arg |-> arg, data |-> data, ok |-> ok]

\* The invocation ends by an exception (the Lambda invocation fails).
Throw(c, error) == [c EXCEPT !.pc = "failed", !.ret = error]

\* The invocation returns { statusCode: 200, body: 'OK' }.
ReturnOK(c) == [c EXCEPT !.pc = "done", !.ret = "200 OK"]

\* A single-wait branch that compares names and stops the execution of an
\* event the item is not named for.
SingleEventStateStops(c, item) ==
    IF item.eventName # c.event.eventName
    THEN [c EXCEPT !.pc = "stop", !.executionArn = item.executionArn]
    ELSE IF item.taskToken = None
    THEN Throw(c, "TypeError")
    ELSE [c EXCEPT !.pc = "signal", !.taskToken = item.taskToken]

\* res.Items.length == 1: sendTaskSuccess with res.Items[0].taskToken.S;
\* reading .S of an attribute the item does not carry throws a TypeError.
SingleEventState(c, item) ==
    IF item.taskToken = None
    THEN Throw(c, "TypeError")
    ELSE [c EXCEPT !.pc = "signal", !.taskToken = item.taskToken]

\* The for loop over res.Items up to its first await: the Default item sets
\* executionArn, the first other item named as the event is the match; with
\* no match the loop ends and stopExecution follows.
RECURSIVE ParallelEventState(_, _, _)
ParallelEventState(c, order, i) ==
    IF i > Len(order)
    THEN [c EXCEPT !.pc = "stop"]
    ELSE IF order[i].eventName = Default
    THEN IF order[i].executionArn = None
         THEN Throw(c, "TypeError")
         ELSE ParallelEventState(
                 [c EXCEPT !.executionArn = order[i].executionArn], order, i + 1)
    ELSE IF order[i].eventName = c.event.eventName
    THEN IF order[i].taskToken = None
         THEN Throw(c, "TypeError")
         ELSE [c EXCEPT !.pc = "signal", !.taskToken = order[i].taskToken]
    ELSE ParallelEventState(c, order, i + 1)

\* The empty answer falling into the parallel branch.
NoItemsStops(c) == [c EXCEPT !.pc = "stop"]

\* if(res.Items && res.Items.length > 0) is false: the handler falls off its
\* end and resolves with undefined.
NoItems(c) == [c EXCEPT !.pc = "done", !.ret = "undefined"]

\* The handler from the query's answer to its next await (or its return).
Queried(c, order) ==
    LET q == [c EXCEPT !.items = {order[i] : i \in 1..Len(order)},
                       !.calls = Append(@, Call("query", c.event.entityId, None, TRUE))]
    IN  IF Len(order) = 0
        THEN NoItems([q EXCEPT !.mode = "zero"])
        ELSE IF Len(order) = 1
        THEN SingleEventState([q EXCEPT !.mode = "single"], order[1])
        ELSE ParallelEventState([q EXCEPT !.mode = "parallel"], order, 1)

\* deleteItem after every successful sendTaskSuccess.
DeletesAfterEverySignal(mode) == TRUE

\* Whether deleteItem follows a successful sendTaskSuccess.
DeletesAfterSignal(mode) == mode = "parallel"

\* The handler after sendTaskSuccess has resolved.
Signalled(c) ==
    LET s == [c EXCEPT !.calls =
                 Append(@, Call("signal", c.taskToken, Output(c.event), TRUE))]
    IN  IF DeletesAfterSignal(c.mode) THEN [s EXCEPT !.pc = "delete"]
        ELSE ReturnOK(s)

\* A rejected sendTaskSuccess caught in the loop, the deleteItem following.
SignalRejectedDeletes(c, error) ==
    LET s == [c EXCEPT !.calls =
                 Append(@, Call("signal", c.taskToken, Output(c.event), FALSE))]
    IN  IF c.mode = "parallel" THEN [s EXCEPT !.pc = "delete"]
        ELSE Throw(s, error)

\* The handler after sendTaskSuccess has rejected: nothing catches the
\* rejection of the await, the invocation ends by it.
SignalRejected(c, error) ==
    Throw([c EXCEPT !.calls =
              Append(@, Call("signal", c.taskToken, Output(c.event), FALSE))],
          error)

\* The abort surfaced to the caller as an error.
AbortedThrows(c) ==
    Throw([c EXCEPT !.calls =
              Append(@, Call("abort", c.executionArn, Cause(c.event), TRUE))],
          "500")

\* The handler after stopExecution has resolved.
Aborted(c) ==
    ReturnOK([c EXCEPT !.calls =
                 Append(@, Call("abort", c.executionArn, Cause(c.event), TRUE))])

\* The Event Bus invokes event_handler with an event (a first delivery, a
\* redelivery or a retry alike) on a free handler slot.
Deliver(h, ev) ==
    /\ corr[h].pc \in {"idle", "done", "failed"}
    /\ corr' = [corr EXCEPT ![h] = [IdleCorr EXCEPT !.pc = "query", !.event = ev]]
    /\ UNCHANGED <<store, exec, init, faults, builder, choreography,
                   insights, simulation>>

\* await dynamoDB.query(...) and the code up to the next await.
Query(h) ==
    /\ corr[h].pc = "query"
    /\ corr' = [corr EXCEPT ![h] =
                Queried(corr[h], QueryResult(store[corr[h].event.entityId]))]
    /\ UNCHANGED <<store, exec, init, faults, builder, choreography,
                   insights, simulation>>

\* dynamoDB.query rejects (the table cannot be reached).
QueryFails(h) ==
    /\ corr[h].pc = "query"
    /\ faults < MaxFaults
    /\ faults' = faults + 1
    /\ corr' = [corr EXCEPT ![h] =
          Throw([corr[h] EXCEPT !.calls =
                    Append(@, Call("query", corr[h].event.entityId, None, FALSE))],
                "StoreError")]
    /\ UNCHANGED <<store, exec, init, builder, choreography,
                   insights, simulation>>

\* await sfn.sendTaskSuccess(...): the engine accepts the token of a waiting
\* task and rejects any other token.
SendTaskSuccess(h) ==
    /\ corr[h].pc = "signal"
    /\ IF TokenPending(corr[h].taskToken)
       THEN /\ exec' = Resumed(corr[h].taskToken, Output(corr[h].event))
            /\ corr' = [corr EXCEPT ![h] = Signalled(corr[h])]
       ELSE /\ exec' = exec
            /\ corr' = [corr EXCEPT ![h] = SignalRejected(corr[h], "TaskTimedOut")]
    /\ UNCHANGED <<store, init, faults, builder, choreography,
                   insights, simulation>>

\* sfn.sendTaskSuccess rejects for a reason of the service's own.
SendTaskSuccessFails(h) ==
    /\ corr[h].pc = "signal"
    /\ faults < MaxFaults
    /\ faults' = faults + 1
    /\ corr' = [corr EXCEPT ![h] = SignalRejected(corr[h], "EngineError")]
    /\ UNCHANGED <<store, exec, init, builder, choreography,
                   insights, simulation>>

\* await dynamoDB.deleteItem(...) on (event.entityId, event.eventName).
DeleteItemStep(h) ==
    /\ corr[h].pc = "delete"
    /\ store' = [store EXCEPT ![corr[h].event.entityId] =
                    DeleteItem(@, corr[h].event.eventName)]
    /\ corr' = [corr EXCEPT ![h] =
          ReturnOK([corr[h] EXCEPT !.calls =
                       Append(@, Call("delete", corr[h].event.eventName, None, TRUE))])]
    /\ UNCHANGED <<exec, init, faults, builder, choreography,
                   insights, simulation>>

\* dynamoDB.deleteItem rejects.
DeleteItemFails(h) ==
    /\ corr[h].pc = "delete"
    /\ faults < MaxFaults
    /\ faults' = faults + 1
    /\ corr' = [corr EXCEPT ![h] =
          Throw([corr[h] EXCEPT !.calls =
                    Append(@, Call("delete", corr[h].event.eventName, None, FALSE))],
                "StoreError")]
    /\ UNCHANGED <<store, exec, init, builder, choreography,
                   insights, simulation>>

\* await sfn.stopExecution(...): the engine rejects an undefined
\* executionArn and stops the execution named by a defined one.
StopExecution(h) ==
    /\ corr[h].pc = "stop"
    /\ IF corr[h].executionArn = None
       THEN /\ exec' = exec
            /\ corr' = [corr EXCEPT ![h] =
                  Throw([corr[h] EXCEPT !.calls =
                            Append(@, Call("abort", None, Cause(corr[h].event), FALSE))],
                        "ValidationException")]
       ELSE /\ exec' = Stopped(corr[h].executionArn)
            /\ corr' = [corr EXCEPT ![h] = Aborted(corr[h])]
    /\ UNCHANGED <<store, init, faults, builder, choreography,
                   insights, simulation>>

\* sfn.stopExecution rejects for a reason of the service's own.
StopExecutionFails(h) ==
    /\ corr[h].pc = "stop"
    /\ faults < MaxFaults
    /\ faults' = faults + 1
    /\ corr' = [corr EXCEPT ![h] =
          Throw([corr[h] EXCEPT !.calls =
                    Append(@, Call("abort", corr[h].executionArn,
                                   Cause(corr[h].event), FALSE))],
                "EngineError")]
    /\ UNCHANGED <<store, exec, init, builder, choreography,
                   insights, simulation>>

\* --------------------------------------- initialize_workflow (the Initiator)

IdleInit ==
    [pc |-> "idle", name |-> "-", executionArn |-> None, ret |-> "-",
     calls |-> <<>>]

\* The first state of the state machine the StartEventRule names for the
\* entity: the order workflow's for an order, the car workflow's for a car.
StartState(name) ==
    IF name \in OrderEntities THEN "WaitForConfirmation" ELSE "Announced"

\* The engine's state after StartExecution(name) was accepted: a new
\* execution at its first state, or the running execution of that name
\* (the call is idempotent for the same name and input).
Started(name) ==
    IF exec[name].status = "none"
    THEN [exec EXCEPT ![name] =
              AtNode([NoExecution EXCEPT !.status = "running"],
                     StartState(name))]
    ELSE exec

\* The engine accepts StartExecution(name): the name is new, or that of a
\* running execution; the name of a closed execution is refused
\* (ExecutionAlreadyExists).
StartAccepted(name) == exec[name].status \in {"none", "running"}

\* A catch block that starts over.
RetriesOnErrorYes == TRUE

\* Whether the catch block retries instead of rethrowing (it rethrows).
RetriesOnError == FALSE

\* catch(e) { console.error(...); throw e; }
Rethrow(i, error) ==
    IF RetriesOnError THEN [i EXCEPT !.pc = "start"]
    ELSE [i EXCEPT !.pc = "failed", !.ret = error]

\* The executionArn used unchecked.
NoArnSaves(i) == [i EXCEPT !.pc = "save"]

\* if(!execution.executionArn) throw new Error("ExecutionArn is undefined.")
NoArn(i) == Rethrow(i, "ExecutionArn is undefined.")

\* The execution saved under the name of the start event.
SaveKeyStartEvent == "Car Announced"

\* The key the Initiator saves the execution under.
SaveKey == Default

\* The Event Bus invokes initialize_workflow for a start event whose
\* entity id is `name`.
Invoke(name) ==
    /\ init.pc \in {"idle", "done", "failed"}
    /\ init' = [IdleInit EXCEPT !.pc = "start", !.name = name]
    /\ UNCHANGED <<store, exec, corr, faults, builder, choreography,
                   insights, simulation>>

\* await sfn.startExecution(...) and the check of execution.executionArn.
StartExecution ==
    /\ init.pc = "start"
    /\ IF StartAccepted(init.name)
       THEN /\ exec' = Started(init.name)
            /\ init' = [init EXCEPT !.pc = "save",
                           !.executionArn = ExecutionArn(init.name),
                           !.calls = Append(@, Call("start", init.name,
                                                    ExecutionArn(init.name), TRUE))]
       ELSE /\ exec' = exec
            /\ init' = Rethrow([init EXCEPT !.calls =
                                   Append(@, Call("start", init.name, None, FALSE))],
                               "ExecutionAlreadyExists")
    /\ UNCHANGED <<store, corr, faults, builder, choreography,
                   insights, simulation>>

\* sfn.startExecution rejects for a reason of the service's own.
StartExecutionFails ==
    /\ init.pc = "start"
    /\ faults < MaxFaults
    /\ faults' = faults + 1
    /\ init' = Rethrow([init EXCEPT !.calls =
                           Append(@, Call("start", init.name, None, FALSE))],
                       "EngineError")
    /\ UNCHANGED <<store, exec, corr, builder, choreography,
                   insights, simulation>>

\* sfn.startExecution resolves without an executionArn:
\* throw new Error("ExecutionArn is undefined."). The engine may or may not
\* have started the execution.
StartExecutionNoArn ==
    /\ init.pc = "start"
    /\ faults < MaxFaults
    /\ faults' = faults + 1
    /\ \E started \in BOOLEAN :
          exec' = IF started /\ StartAccepted(init.name)
                  THEN Started(init.name) ELSE exec
    /\ init' = NoArn([init EXCEPT !.calls =
                         Append(@, Call("start", init.name, None, TRUE))])
    /\ UNCHANGED <<store, corr, builder, choreography, insights, simulation>>

\* await dynamoDB.updateItem(...): SET executionArn on (event.name, "Default").
SaveExecution ==
    /\ init.pc = "save"
    /\ store' = [store EXCEPT ![init.name] =
                    UpdateItem(@, SaveKey, "executionArn", init.executionArn)]
    /\ init' = [init EXCEPT !.pc = "done", !.ret = "200 OK",
                   !.calls = Append(@, Call("put", SaveKey, init.executionArn, TRUE))]
    /\ UNCHANGED <<exec, corr, faults, builder, choreography,
                   insights, simulation>>

\* dynamoDB.updateItem rejects.
SaveExecutionFails ==
    /\ init.pc = "save"
    /\ faults < MaxFaults
    /\ faults' = faults + 1
    /\ init' = Rethrow([init EXCEPT !.calls =
                           Append(@, Call("put", SaveKey, init.executionArn, FALSE))],
                       "StoreError")
    /\ UNCHANGED <<store, exec, corr, builder, choreography,
                   insights, simulation>>

\* ----------------------------------------------------------- specification

Init ==
    /\ store = [e \in Entities |-> {}]
    /\ exec = [e \in Entities |-> NoExecution]
    /\ corr = [h \in Handlers |-> IdleCorr]
    /\ init = IdleInit
    /\ faults = 0
    /\ builder = StackBuilder
    /\ choreography = StackChoreography
    /\ insights = StackInsights
    /\ simulation = 1

\* The steps of the system restricted to entities Es, handler slots Hs and
\* event names Ns.
NextOver(Es, Hs, Ns) ==
    \/ \E e \in Es : Invoke(e)
    \/ StartExecution
    \/ StartExecutionFails
    \/ StartExecutionNoArn
    \/ SaveExecution
    \/ SaveExecutionFails
    \/ \E e \in Es, s \in StateNames : EnterWaitState(e, s)
    \/ \E h \in Hs, ev \in Events :
          ev.entityId \in Es /\ ev.eventName \in Ns /\ Deliver(h, ev)
    \/ \E h \in Hs : Query(h)
    \/ \E h \in Hs : QueryFails(h)
    \/ \E h \in Hs : SendTaskSuccess(h)
    \/ \E h \in Hs : SendTaskSuccessFails(h)
    \/ \E h \in Hs : DeleteItemStep(h)
    \/ \E h \in Hs : DeleteItemFails(h)
    \/ \E h \in Hs : StopExecution(h)
    \/ \E h \in Hs : StopExecutionFails(h)

\* One entity, one handler slot: the sequential behaviour of the system
\* with the workflow, the Initiator and the Correlator interleaved.
Next == NextOver({"car-1"}, {"h1"}, EventNames)

Spec == Init /\ [][Next]_vars

\* The events of a car's way from the inspection to the sale.
SaleEventNames ==
    {"Inspection Completed", "Car Cleaned", "Car Repaired", "Car Priced",
     "Car Published", "Car Reserved", "Car Sold", "Car Delivered",
     "Invoice Sent"}

\* The system driven by the events of a sale: the execution can pass both
\* Parallel states and end.
NextSale == NextOver({"car-1"}, {"h1"}, SaleEventNames)

SpecSale == Init /\ [][NextSale]_vars

\* One order, one handler slot, the order choreography's events.
NextOrder ==
    \/ Invoke("order-1")
    \/ StartExecution
    \/ StartExecutionFails
    \/ StartExecutionNoArn
    \/ SaveExecution
    \/ SaveExecutionFails
    \/ \E s \in OrderWaitNodes : EnterWaitState("order-1", s)
    \/ \E ev \in Events :
          /\ ev.entityId = "order-1"
          /\ ev.eventName \in OrderEventNames
          /\ Deliver("h1", ev)
    \/ Query("h1")
    \/ QueryFails("h1")
    \/ SendTaskSuccess("h1")
    \/ SendTaskSuccessFails("h1")

SpecOrder == Init /\ [][NextOrder]_vars

\* The events of a race for one branch of the InPreparation state: the
\* inspection that leads there, and Car Cleaned.
RaceEvents ==
    {ev \in Events :
        /\ ev.entityId = "car-1"
        /\ \/ ev.eventName = "Inspection Completed" /\ ev.result = "Success"
           \/ ev.eventName = "Car Cleaned"}

\* The system with two concurrent event_handler invocations and every AWS
\* call answered by its service.
NextRace ==
    \/ Invoke("car-1")
    \/ StartExecution
    \/ SaveExecution
    \/ \E s \in StateNames : EnterWaitState("car-1", s)
    \/ \E h \in Handlers, ev \in RaceEvents : Deliver(h, ev)
    \/ \E h \in Handlers : Query(h)
    \/ \E h \in Handlers : SendTaskSuccess(h)
    \/ \E h \in Handlers : DeleteItemStep(h)
    \/ \E h \in Handlers : StopExecution(h)

SpecRace == Init /\ [][NextRace]_vars

\* ------------------------------------- the builder under any sequence of calls

\* States built in one behaviour.
MaxBuilds == 2

BuilderNames == {"Clean", "Repair", "Evaluate"}

BuilderEventNames == {"Car Cleaned", "Car Repaired"}

InitBuilder ==
    /\ store = [e \in Entities |-> {}]
    /\ exec = [e \in Entities |-> NoExecution]
    /\ corr = [h \in Handlers |-> IdleCorr]
    /\ init = IdleInit
    /\ faults = 0
    /\ builder \in {NewBuilder(props) : props \in BuilderProps}
    /\ choreography = NewChoreography(CarDefinition)
    /\ insights = NewInsights
    /\ simulation = 1

CallWithName(name) ==
    /\ builder' = Called(builder, [op |-> "withName", arg |-> name])
    /\ UNCHANGED <<store, exec, corr, init, faults, choreography,
                   insights, simulation>>

CallWithEntityId(entityId) ==
    /\ builder' = Called(builder, [op |-> "withEntityId", arg |-> entityId])
    /\ UNCHANGED <<store, exec, corr, init, faults, choreography,
                   insights, simulation>>

CallWithEventName(eventName) ==
    /\ builder' = Called(builder, [op |-> "withEventName", arg |-> eventName])
    /\ UNCHANGED <<store, exec, corr, init, faults, choreography,
                   insights, simulation>>

\* build() where the scope accepts the state's id: a name is set and no
\* construct of the scope carries it yet.
CallBuild ==
    /\ Len(builder.built) < MaxBuilds
    /\ builder.name # Unnamed
    /\ \A i \in 1..Len(builder.built) : builder.built[i].name # builder.name
    /\ builder' = Called(builder, [op |-> "build", arg |-> "-"])
    /\ UNCHANGED <<store, exec, corr, init, faults, choreography,
                   insights, simulation>>

NextBuilder ==
    \/ \E name \in BuilderNames : CallWithName(name)
    \/ \E entityId \in Paths : CallWithEntityId(entityId)
    \/ \E eventName \in BuilderEventNames : CallWithEventName(eventName)
    \/ CallBuild

SpecBuilder == InitBuilder /\ [][NextBuilder]_vars

\* --------------------------------------- the validator over any definition

DefinitionIds == {"A", "B", "C"}

\* The shapes the state `s` of a definition can have.
StateShapes(s) ==
    LET one == {<<>>} \cup {<<t>> : t \in DefinitionIds}
        two == {n \in DefinitionIds \X DefinitionIds : n[1] # n[2]}
    IN  {StateOfKind(k, n, {}) : k \in {"Wait", "Task", "Pass"}, n \in one}
        \cup {StateOfKind("Choice", n, {}) : n \in two}
        \cup {StateOfKind(k, <<>>, {}) : k \in {"Succeed", "Fail"}}
        \cup {StateOfKind("Parallel", n, b) :
                 n \in one, b \in (SUBSET (DefinitionIds \ {s})) \ {{}}}

\* The states of the graph rooted at `root`.
GraphOf(def, root) ==
    LET states == FindReachableStates(def, root)
    IN  {states[i] : i \in 1..Len(states)}

\* The start state and the branch starts below it: the roots of the graph
\* and of its sub-graphs, nested ones included.
RECURSIVE RootsOf(_, _, _)
RootsOf(def, roots, n) ==
    LET more == roots \cup UNION {def.states[s].branches :
                                     s \in UNION {GraphOf(def, r) : r \in roots}}
    IN  IF n = 0 \/ more = roots THEN roots ELSE RootsOf(def, more, n - 1)

Roots(def) == RootsOf(def, {def.start}, Cardinality(DOMAIN def.states))

\* Every state of the definition: those of the graph and of its sub-graphs.
AllStates(def) == UNION {GraphOf(def, r) : r \in Roots(def)}

\* A state belongs to one graph: the graph and the sub-graphs share none.
WellFormed(def) ==
    \A r, q \in Roots(def) : r # q => GraphOf(def, r) \cap GraphOf(def, q) = {}

Definitions ==
    {def \in [start : {"A"},
              states : {f \in [DefinitionIds ->
                                  UNION {StateShapes(s) : s \in DefinitionIds}] :
                           \A s \in DefinitionIds : f[s] \in StateShapes(s)}] :
        WellFormed(def)}

InitValidator ==
    /\ store = [e \in Entities |-> {}]
    /\ exec = [e \in Entities |-> NoExecution]
    /\ corr = [h \in Handlers |-> IdleCorr]
    /\ init = IdleInit
    /\ faults = 0
    /\ builder = StackBuilder
    /\ choreography \in {NewChoreography(def) : def \in Definitions}
    /\ insights = NewInsights
    /\ simulation = 1

\* this.checkDefinition(props.definition)
CheckDefinitionStep ==
    /\ choreography.pc = "check"
    /\ choreography' = Checked(choreography)
    /\ UNCHANGED <<store, exec, corr, init, faults, builder,
                   insights, simulation>>

\* this.stateMachine = new StateMachine(...)
CreateStateMachine ==
    /\ choreography.pc = "create"
    /\ choreography' = Created(choreography)
    /\ UNCHANGED <<store, exec, corr, init, faults, builder,
                   insights, simulation>>

NextValidator == CheckDefinitionStep \/ CreateStateMachine

SpecValidator == InitValidator /\ [][NextValidator]_vars

\* ------------------------------------------------------ binding behaviour

\* The longest events list of a Choreography.
MaxPatterns == 2

\* The patterns of the events lists.
Patterns ==
    {AnythingBut("car", {"Car Announced"}),
     Exactly("car", {"Car Cleaned"}),
     Exactly("car", {"Car Sold"})}

ChoreographyEvents ==
    {[pattern |-> p, entityIdJsonPath |-> q] :
        p \in Patterns, q \in {NoPath, EventVinPath}}

EventLists == UNION {[1..n -> ChoreographyEvents] : n \in 0..MaxPatterns}

\* A car Choreography with any events list, and the construct before
\* addChoreography.
InitBinding ==
    /\ store = [e \in Entities |-> {}]
    /\ exec = [e \in Entities |-> NoExecution]
    /\ corr = [h \in Handlers |-> IdleCorr]
    /\ init = IdleInit
    /\ faults = 0
    /\ builder = StackBuilder
    /\ choreography \in
          {[StackChoreography EXCEPT !.events = events] : events \in EventLists}
    /\ insights = NewInsights
    /\ simulation = 1

\* insights.addChoreography(choreography)
AddChoreographyStep ==
    /\ insights.choreographyList = <<>>
    /\ insights.error = NoError
    /\ insights' = AddChoreography(insights, choreography)
    /\ UNCHANGED <<store, exec, corr, init, faults, builder,
                   choreography, simulation>>

\* An event is put on the bus of the deployed construct.
PutEventsStep(ev) ==
    /\ insights.choreographyList # <<>>
    /\ insights' = PutEvents(insights, ev)
    /\ UNCHANGED <<store, exec, corr, init, faults, builder,
                   choreography, simulation>>

NextBinding ==
    \/ AddChoreographyStep
    \/ \E ev \in BusEvents : PutEventsStep(ev)

SpecBinding == InitBinding /\ [][NextBinding]_vars

\* ------------------------------------------------- workflow simulation

\* The events of the simulation's example input, in its order, for one car.
SimulationEvents ==
    LET Ev(n, r) ==
            [source |-> "car", detailType |-> n,
             detail |-> [id |-> "car-1", vin |-> "vin-1", result |-> r]]
    IN  << Ev("Car Announced", "-"), Ev("Inspection Completed", "Success"),
           Ev("Car Cleaned", "-"), Ev("Car Priced", "-"),
           Ev("Car Repaired", "-"), Ev("Car Published", "-"),
           Ev("Car Reserved", "-"), Ev("Car Sold", "-"),
           Ev("Car Delivered", "-"), Ev("Invoice Sent", "-") >>

\* The target input read without its detail.
HandlerEventNoDetail(input) ==
    [entityId |-> input.entityId, eventName |-> input.eventName, result |-> "-"]

\* The event the handler receives as the target input of its rule.
HandlerEvent(input) ==
    [entityId |-> input.entityId, eventName |-> input.eventName,
     result |-> input.detail.result]

\* The Wait between two events of the simulation has been long enough: the
\* invocations of the event before, the Initiator's or the Correlator's, have
\* ended and the workflow has registered the wait-states of the state it is
\* in.
Settled ==
    /\ init.pc \in {"idle", "done", "failed"}
    /\ \A h \in Handlers : corr[h].pc \in {"idle", "done", "failed"}
    /\ \A e \in Entities : \A s \in StateNames : exec[e].br[s] # "entering"

\* The Map iteration: PublishEvent puts the next event of the input on the
\* bus, whose rules invoke the Initiator or the Correlator with it.
PublishEvent ==
    /\ simulation <= Len(SimulationEvents)
    /\ Settled
    /\ LET bus == PutEvents(insights, SimulationEvents[simulation])
           starts == {inv \in bus.invocations :
                         inv.target = "InitWorkflowHandler"}
           nexts == {inv \in bus.invocations : inv.target = "EventHandler"}
       IN  /\ insights' = bus
           /\ init' = IF starts = {} THEN init
                      ELSE [IdleInit EXCEPT !.pc = "start",
                               !.name = (CHOOSE inv \in starts : TRUE).name]
           /\ corr' = IF nexts = {} THEN corr
                      ELSE [corr EXCEPT !["h1"] =
                               [IdleCorr EXCEPT !.pc = "query",
                                  !.event = HandlerEvent(
                                      (CHOOSE inv \in nexts : TRUE).input)]]
    /\ simulation' = simulation + 1
    /\ UNCHANGED <<store, exec, faults, builder, choreography>>

NextSimulation ==
    \/ PublishEvent
    \/ StartExecution
    \/ SaveExecution
    \/ \E s \in CarStateNames : EnterWaitState("car-1", s)
    \/ Query("h1")
    \/ SendTaskSuccess("h1")
    \/ DeleteItemStep("h1")

\* Every step that can be taken is taken in the end: the Lambda invocations
\* run to their end, the engine enters the states it has reached, the
\* simulation publishes its next event.
FairSimulation ==
    /\ WF_vars(PublishEvent)
    /\ WF_vars(StartExecution)
    /\ WF_vars(SaveExecution)
    /\ WF_vars(\E s \in CarStateNames : EnterWaitState("car-1", s))
    /\ WF_vars(Query("h1"))
    /\ WF_vars(SendTaskSuccess("h1"))
    /\ WF_vars(DeleteItemStep("h1"))

\* The stack with the simulation run on the example input.
SpecSimulation == Init /\ [][NextSimulation]_vars /\ FairSimulation

\* ------------------------------------------- the events of a car, once each

\* The event is one the execution waits for and no invocation has been given
\* yet: the key of a branch still waiting of the Parallel state whose branches
\* have all registered, or, with no invocation under way, the event that
\* takes the registered sequential wait-state on towards the sale.
Awaited(ev) ==
    LET e == ev.entityId
        node == exec[e].node
    IN  /\ exec[e].status = "running"
        /\ \A s \in NodeStates(node) : exec[e].br[s] # "entering"
        /\ \A h \in Handlers : corr[h].event # ev
        /\ IF node \in ParallelNodes
           THEN \E s \in NodeStates(node) :
                   /\ exec[e].br[s] = "waiting"
                   /\ BuiltState(s).eventName = ev.eventName
           ELSE /\ node \in WaitNodes
                /\ exec[e].br[node] = "waiting"
                /\ ChoiceNext(node, ev) \in WaitNodes \cup ParallelNodes
                /\ \A h \in Handlers : corr[h].pc \in {"idle", "done", "failed"}

\* One car announced once, every event of its sale delivered once when the
\* workflow waits for it, to either of two concurrent invocations; every AWS
\* call is answered by its service.
NextBranches ==
    \/ init.pc = "idle" /\ Invoke("car-1")
    \/ StartExecution
    \/ SaveExecution
    \/ \E s \in CarStateNames : EnterWaitState("car-1", s)
    \/ \E h \in Handlers, ev \in Events :
          /\ ev.entityId = "car-1"
          /\ ev.eventName \in SaleEventNames
          /\ Awaited(ev)
          /\ Deliver(h, ev)
    \/ \E h \in Handlers : Query(h)
    \/ \E h \in Handlers : SendTaskSuccess(h)
    \/ \E h \in Handlers : DeleteItemStep(h)

SpecBranches == Init /\ [][NextBranches]_vars

\* ------------------------------------------------------------- two entities

\* The events of two cars up to their preparation.
EntityEvents ==
    {ev \in Events :
        /\ ev.entityId \in {"car-1", "car-2"}
        /\ \/ ev.eventName = "Inspection Completed" /\ ev.result = "Success"
           \/ ev.eventName = "Car Cleaned"}

\* The wait-states the engine gets to run: of the branches of InPreparation
\* Clean alone, the others are yet to register.
EntityStates == {"Announced", "Clean"}

\* Two cars, each with its execution, and two concurrent invocations, one
\* per car; every AWS call is answered by its service.
NextEntities ==
    \/ \E e \in {"car-1", "car-2"} : Invoke(e)
    \/ StartExecution
    \/ SaveExecution
    \/ \E e \in {"car-1", "car-2"}, s \in EntityStates : EnterWaitState(e, s)
    \/ \E ev \in EntityEvents :
          Deliver(IF ev.entityId = "car-1" THEN "h1" ELSE "h2", ev)
    \/ \E h \in Handlers : Query(h)
    \/ \E h \in Handlers : SendTaskSuccess(h)
    \/ \E h \in Handlers : DeleteItemStep(h)
    \/ \E h \in Handlers : StopExecution(h)

SpecEntities == Init /\ [][NextEntities]_vars

\* ------------------------------------------------------------- properties

\* The invocation has returned or thrown.
Finished(c) == c.pc \in {"done", "failed"}

\* The calls of kind `op` the invocation has made, in order.
CallsOf(c, op) == SelectSeq(c.calls, LAMBDA x : x.op = op)

\* The queried items whose eventName is the event's eventName.
Matching(c) == {it \in c.items : it.eventName = c.event.eventName}

\* A step of the event_handler invocation in slot h.
CorrStep(h) == corr'[h] # corr[h]

\* C1: in single-wait mode (the query returned exactly one item) the
\* Correlator calls sendTaskSuccess exactly once, with that item's token and
\* the event as output, whatever the event's eventName, and never calls
\* stopExecution.
C1_SingleWaitSignalsOnce ==
    \A h \in Handlers :
        (corr[h].mode = "single" /\ Finished(corr[h])) =>
            /\ Len(CallsOf(corr[h], "signal")) = 1
            /\ \A it \in corr[h].items :
                  /\ CallsOf(corr[h], "signal")[1].arg = it.taskToken
                  /\ CallsOf(corr[h], "signal")[1].data = Output(corr[h].event)
            /\ Len(CallsOf(corr[h], "abort")) = 0

\* C1 restricted to an item that carries a taskToken: the one case C1 fails
\* in is the item without one.
SingleWaitSignalsOnceGivenToken ==
    \A h \in Handlers :
        (/\ corr[h].mode = "single"
         /\ Finished(corr[h])
         /\ \A it \in corr[h].items : it.taskToken # None) =>
            /\ Len(CallsOf(corr[h], "signal")) = 1
            /\ \A it \in corr[h].items :
                  /\ CallsOf(corr[h], "signal")[1].arg = it.taskToken
                  /\ CallsOf(corr[h], "signal")[1].data = Output(corr[h].event)
            /\ Len(CallsOf(corr[h], "abort")) = 0

\* C2: no step of a single-wait invocation changes the table: the one item
\* is neither deleted nor rewritten and no item is added.
C2_SingleWaitKeepsStore ==
    [][\A h \in Handlers :
          (CorrStep(h) /\ (corr[h].mode = "single" \/ corr'[h].mode = "single"))
              => store' = store]_vars

\* A single-wait invocation has resumed the wait and returned, the item it
\* read still in the table.
C2_Witness ==
    \E h \in Handlers :
        /\ corr[h].mode = "single"
        /\ corr[h].ret = "200 OK"
        /\ Len(CallsOf(corr[h], "signal")) = 1
        /\ corr[h].items # {}
        /\ corr[h].items = store[corr[h].event.entityId]

\* C3: in parallel-wait mode (the query returned several items) with an item
\* named as the event, the Correlator calls sendTaskSuccess exactly once,
\* with that item's token and the event as output, and never stopExecution.
C3_ParallelMatchSignalsMatch ==
    \A h \in Handlers :
        (/\ corr[h].mode = "parallel"
         /\ Finished(corr[h])
         /\ Matching(corr[h]) # {}) =>
            /\ Len(CallsOf(corr[h], "signal")) = 1
            /\ \A it \in Matching(corr[h]) :
                  /\ CallsOf(corr[h], "signal")[1].arg = it.taskToken
                  /\ CallsOf(corr[h], "signal")[1].data = Output(corr[h].event)
            /\ Len(CallsOf(corr[h], "abort")) = 0

\* C3 for an event not named "Default" whose scan meets no Default item
\* without an executionArn: the cases C3 fails in are those two.
ParallelMatchSignalsMatchGivenArn ==
    \A h \in Handlers :
        (/\ corr[h].mode = "parallel"
         /\ Finished(corr[h])
         /\ Matching(corr[h]) # {}
         /\ corr[h].event.eventName # Default
         /\ \A it \in corr[h].items :
               it.eventName = Default => it.executionArn # None) =>
            /\ Len(CallsOf(corr[h], "signal")) = 1
            /\ \A it \in Matching(corr[h]) :
                  /\ CallsOf(corr[h], "signal")[1].arg = it.taskToken
                  /\ CallsOf(corr[h], "signal")[1].data = Output(corr[h].event)
            /\ Len(CallsOf(corr[h], "abort")) = 0

\* C4: the successful deleteItem of a matched parallel-wait invocation
\* removes exactly the item (event.entityId, event.eventName): every other
\* item of the entity, the Default item included, and every other entity
\* stay as they were; no other step of the invocation changes the table.
C4_ParallelMatchDeletesOnlyMatch ==
    [][\A h \in Handlers :
          (CorrStep(h) /\ corr'[h].mode = "parallel" /\ Matching(corr'[h]) # {}) =>
              IF corr[h].pc = "delete" /\ corr'[h].ret = "200 OK"
              THEN /\ \A e \in Entities \ {corr[h].event.entityId} :
                         store'[e] = store[e]
                   /\ store'[corr[h].event.entityId] =
                         {it \in store[corr[h].event.entityId] :
                             it.eventName # corr[h].event.eventName}
              ELSE store' = store]_vars

\* A matched parallel-wait invocation has signalled, deleted and returned:
\* the matched item is gone, the Default item and a sibling are still there.
C4_Witness ==
    \E h \in Handlers :
        /\ corr[h].mode = "parallel"
        /\ corr[h].ret = "200 OK"
        /\ Len(CallsOf(corr[h], "delete")) = 1
        /\ \A it \in store[corr[h].event.entityId] :
              it.eventName # corr[h].event.eventName
        /\ \E it \in corr[h].items : it.eventName = corr[h].event.eventName
        /\ \E it \in store[corr[h].event.entityId] : it.eventName = Default
        /\ \E it \in store[corr[h].event.entityId] : it.eventName \in BranchKeys
        /\ store[corr[h].event.entityId] =
              corr[h].items \ Matching(corr[h])

\* C5: in parallel-wait mode with no item named as the event, the
\* Correlator calls sendTaskSuccess never and stopExecution exactly once, on
\* the executionArn of the entity's Default item, with a cause naming the
\* event's eventName and entityId.
C5_ParallelNoMatchAborts ==
    \A h \in Handlers :
        (/\ corr[h].mode = "parallel"
         /\ Finished(corr[h])
         /\ Matching(corr[h]) = {}) =>
            /\ Len(CallsOf(corr[h], "signal")) = 0
            /\ Len(CallsOf(corr[h], "abort")) = 1
            /\ CallsOf(corr[h], "abort")[1].data = Cause(corr[h].event)
            /\ \E it \in corr[h].items :
                  /\ it.eventName = Default
                  /\ it.executionArn # None
                  /\ CallsOf(corr[h], "abort")[1].arg = it.executionArn

\* C5 for a Default item that carries an executionArn: the one case C5
\* fails in is the Default item without one.
ParallelNoMatchAbortsGivenArn ==
    \A h \in Handlers :
        (/\ corr[h].mode = "parallel"
         /\ Finished(corr[h])
         /\ Matching(corr[h]) = {}
         /\ \A it \in corr[h].items :
               it.eventName = Default => it.executionArn # None) =>
            /\ Len(CallsOf(corr[h], "signal")) = 0
            /\ Len(CallsOf(corr[h], "abort")) = 1
            /\ CallsOf(corr[h], "abort")[1].data = Cause(corr[h].event)
            /\ \E it \in corr[h].items :
                  /\ it.eventName = Default
                  /\ CallsOf(corr[h], "abort")[1].arg = it.executionArn

\* The invocation is in parallel-wait mode and no non-Default item is named
\* as the event.
Unmatched(c) ==
    /\ c.mode = "parallel"
    /\ \A it \in c.items : it.eventName = Default \/ it.eventName # c.event.eventName

\* C6: no step of a parallel-wait invocation that finds no match changes the
\* table, and the step in which stopExecution succeeds returns 200 OK.
C6_ParallelNoMatchKeepsStore ==
    [][\A h \in Handlers :
          (CorrStep(h) /\ Unmatched(corr'[h])) =>
              /\ store' = store
              /\ (/\ Len(CallsOf(corr'[h], "abort")) = 1
                  /\ CallsOf(corr'[h], "abort")[1].ok) =>
                     (corr'[h].pc = "done" /\ corr'[h].ret = "200 OK")]_vars

\* An unmatched parallel-wait invocation has stopped the execution and
\* returned, every item it read still in the table.
C6_Witness ==
    \E h \in Handlers :
        /\ Unmatched(corr[h])
        /\ corr[h].event.eventName # Default
        /\ corr[h].ret = "200 OK"
        /\ Len(CallsOf(corr[h], "abort")) = 1
        /\ CallsOf(corr[h], "abort")[1].ok
        /\ exec[corr[h].event.entityId].status = "aborted"
        /\ Cardinality(corr[h].items) > 1
        /\ corr[h].items = store[corr[h].event.entityId]

\* C7: when the query returns no item the Correlator makes no call to the
\* engine and no write to the table, and resolves without an error.
C7_ZeroRecordsNoOp ==
    /\ [](\A h \in Handlers :
            corr[h].mode = "zero" =>
                /\ corr[h].pc = "done"
                /\ corr[h].ret = "undefined"
                /\ corr[h].items = {}
                /\ Len(corr[h].calls) = 1
                /\ corr[h].calls[1].op = "query")
    /\ [][\A h \in Handlers :
            (CorrStep(h) /\ corr'[h].mode = "zero") =>
                (store' = store /\ exec' = exec)]_vars

\* An invocation has found no item for its entity and returned.
C7_Witness ==
    \E h \in Handlers :
        /\ corr[h].mode = "zero"
        /\ corr[h].pc = "done"
        /\ store[corr[h].event.entityId] = {}

\* The Initiator's startExecution was refused or resolved without an
\* executionArn.
StartGaveNoArn(i) ==
    /\ Len(i.calls) >= 1
    /\ i.calls[1].op = "start"
    /\ (~i.calls[1].ok \/ i.calls[1].data = None)

\* C8: when startExecution fails or returns no executionArn, the Initiator
\* throws to its caller and writes nothing: the step leaves the table as it
\* was and no updateItem follows.
C8_StartFailureWritesNothing ==
    /\ [](StartGaveNoArn(init) =>
            /\ init.pc = "failed"
            /\ init.ret \in {"EngineError", "ExecutionAlreadyExists",
                             "ExecutionArn is undefined."}
            /\ Len(CallsOf(init, "put")) = 0
            /\ Len(init.calls) = 1)
    /\ [][(init' # init /\ StartGaveNoArn(init')) => store' = store]_vars

\* startExecution resolved without an executionArn, the invocation threw
\* and the entity has no Default item.
C8_Witness ==
    /\ StartGaveNoArn(init)
    /\ init.calls[1].ok
    /\ init.ret = "ExecutionArn is undefined."
    /\ \A it \in store[init.name] : it.eventName # Default

\* The Default items of an entity.
DefaultItems(e) == {it \in store[e] : it.eventName = Default}

\* C9: once the Initiator has returned 200 OK the table holds exactly one
\* item (name, "Default"), carrying the executionArn startExecution
\* returned; the same updateItem done again gives the same table.
C9_SaveIsUpsert ==
    init.pc = "done" =>
        /\ Cardinality(DefaultItems(init.name)) = 1
        /\ \A it \in DefaultItems(init.name) :
              /\ it.executionArn = CallsOf(init, "start")[1].data
              /\ it.executionArn # None
        /\ UpdateItem(store[init.name], Default, "executionArn",
                      CallsOf(init, "start")[1].data) = store[init.name]

\* The Initiator has returned after its write met the Default item the
\* first wait-state had already written: one item carries token and ARN.
C9_Witness ==
    /\ init.pc = "done"
    /\ \E it \in store[init.name] :
          /\ it.eventName = Default
          /\ it.taskToken # None
          /\ it.executionArn = ExecutionArn(init.name)

\* C10: one Initiator invocation calls startExecution at most once and
\* updateItem at most once, updateItem only after startExecution returned an
\* executionArn, and ends in the error of any call that failed.
C10_InitiatorNoRetry ==
    /\ Len(CallsOf(init, "start")) <= 1
    /\ Len(CallsOf(init, "put")) <= 1
    /\ Len(CallsOf(init, "put")) = 1 =>
          /\ Len(init.calls) = 2
          /\ init.calls[1].op = "start"
          /\ init.calls[1].ok
          /\ init.calls[1].data # None
          /\ init.calls[2].arg = Default
          /\ init.calls[2].data = init.calls[1].data
    /\ (\E n \in 1..Len(init.calls) : ~init.calls[n].ok) =>
          (init.pc = "failed" /\ init.ret # "200 OK")
    /\ init.pc = "done" =>
          (Len(init.calls) = 2 /\ \A n \in 1..2 : init.calls[n].ok)

\* The Initiator's updateItem was rejected after a successful start: the
\* invocation ended in the error, with one call of each kind.
C10_Witness ==
    /\ init.pc = "failed"
    /\ init.ret = "StoreError"
    /\ Len(CallsOf(init, "start")) = 1
    /\ Len(CallsOf(init, "put")) = 1

\* The invocation's last call is of kind `op` and was rejected.
LastCallRejected(c, op) ==
    /\ Len(c.calls) > 0
    /\ c.calls[Len(c.calls)].op = op
    /\ ~c.calls[Len(c.calls)].ok

\* C11: a rejected sendTaskSuccess or stopExecution is the invocation's last
\* call and ends it by the engine's error; no deleteItem is made by an
\* invocation whose sendTaskSuccess was rejected, every deleteItem directly
\* follows a sendTaskSuccess that resolved, and the step in which the engine
\* rejects changes no item of the table.
C11_EngineFailurePropagates ==
    /\ [](\A h \in Handlers : \A n \in 1..Len(corr[h].calls) :
            LET call == corr[h].calls[n]
            IN  /\ (call.op \in {"signal", "abort"} /\ ~call.ok)
                   => /\ n = Len(corr[h].calls)
                      /\ corr[h].pc = "failed"
                      /\ corr[h].ret \in {"TaskTimedOut", "EngineError",
                                          "ValidationException"}
                      /\ CallsOf(corr[h], "delete") = <<>>
                /\ call.op = "delete"
                   => /\ n > 1
                      /\ corr[h].calls[n - 1].op = "signal"
                      /\ corr[h].calls[n - 1].ok)
    /\ [][\A h \in Handlers :
            (/\ CorrStep(h)
             /\ Len(corr'[h].calls) > Len(corr[h].calls)
             /\ \/ LastCallRejected(corr'[h], "signal")
                \/ LastCallRejected(corr'[h], "abort"))
            => store' = store]_vars

\* A parallel-wait invocation has failed by a rejected sendTaskSuccess and
\* the matched item is still in the table.
C11_Witness ==
    \E h \in Handlers :
        /\ corr[h].mode = "parallel"
        /\ corr[h].pc = "failed"
        /\ LastCallRejected(corr[h], "signal")
        /\ \E it \in store[corr[h].event.entityId] :
              /\ it.eventName = corr[h].event.eventName
              /\ it.taskToken = corr[h].taskToken

\* An invocation has failed by a rejected stopExecution.
AbortRejected ==
    \E h \in Handlers :
        /\ corr[h].pc = "failed"
        /\ LastCallRejected(corr[h], "abort")
        /\ corr[h].executionArn # None

\* C12: from the Initiator's return of 200 OK on, and as long as the
\* execution runs, the table holds exactly one item (entityId, "Default"):
\* it holds one when the Initiator returns, and no step taken while the
\* execution runs and the table holds one leaves it with none or with two.
C12_OneDefaultWhileRunning ==
    /\ []((init.pc = "done" /\ exec[init.name].status = "running")
            => Cardinality(DefaultItems(init.name)) = 1)
    /\ [][\A e \in Entities :
            (exec[e].status = "running" /\ Cardinality(DefaultItems(e)) = 1)
            => Cardinality({it \in store'[e] : it.eventName = Default}) = 1]_vars

\* The Initiator has returned, the execution waits in the parallel state
\* with its branch items written, and one Default item is in the table.
C12_Witness ==
    /\ init.pc = "done"
    /\ exec[init.name].status = "running"
    /\ exec[init.name].node = "InPreparation"
    /\ Cardinality(store[init.name]) > 2
    /\ Cardinality(DefaultItems(init.name)) = 1

\* The step registers the wait-state of `e` keyed "Default".
DefaultWaitStateEntry(e) ==
    \E s \in StateNames :
        /\ exec[e].br[s] = "entering"
        /\ exec'[e].br[s] = "waiting"
        /\ BuiltState(s).eventName = Default

\* The step is the Initiator's updateItem for `e` resolving.
InitiatorWrite(e) ==
    /\ init.pc = "save"
    /\ init.name = e
    /\ init'.pc = "done"

\* C13 as stated: the only step that writes the item (entityId, "Default")
\* is the Initiator's updateItem.
C13_OnlyInitiatorWritesDefault ==
    [][\A e \in Entities :
          {it \in store'[e] : it.eventName = Default} # DefaultItems(e)
          => InitiatorWrite(e)]_vars

\* C13: the table never holds two items (entityId, "Default"); every entry
\* of a wait-state keyed "Default" writes that item, setting its taskToken to
\* the entry's token and keeping its executionArn and every other item, and
\* the Initiator's updateItem sets its executionArn and keeps its taskToken.
C13_DefaultNeverDuplicated ==
    /\ [](\A e \in Entities : Cardinality(DefaultItems(e)) <= 1)
    /\ [][\A e \in Entities :
            LET after == {it \in store'[e] : it.eventName = Default}
            IN  /\ DefaultWaitStateEntry(e)
                   => /\ Cardinality(after) = 1
                      /\ \A new \in after :
                            /\ new.taskToken = TaskToken(e, exec'[e].n)
                            /\ new.taskToken \notin
                                  {old.taskToken : old \in DefaultItems(e)}
                            /\ \A old \in DefaultItems(e) :
                                  new.executionArn = old.executionArn
                      /\ store'[e] \ after = store[e] \ DefaultItems(e)
                /\ InitiatorWrite(e)
                   => /\ Cardinality(after) = 1
                      /\ \A new \in after :
                            /\ new.executionArn = init.executionArn
                            /\ \A old \in DefaultItems(e) :
                                  new.taskToken = old.taskToken]_vars

\* A later wait-state keyed "Default" has overwritten the token of the
\* Default item the Initiator wrote the executionArn to.
C13_Witness ==
    \E e \in Entities :
        /\ exec[e].node = "ReadyForSale"
        /\ exec[e].br["ReadyForSale"] = "waiting"
        /\ \E it \in DefaultItems(e) :
              /\ it.taskToken = exec[e].tok["ReadyForSale"]
              /\ it.executionArn = ExecutionArn(e)

\* C18: a state built with no withEventName since the previous build (or
\* since construction) has eventName "Default", one built after
\* withEventName has the name given, and the builder's eventName is
\* "Default" whenever no withEventName has followed the last build.
C18_EventNameDefaultsAndResets ==
    /\ \A i \in 1..Len(builder.built) :
          builder.built[i].eventName =
             IF builder.after[i].withEventName = NoCall THEN Default
             ELSE builder.after[i].withEventName
    /\ builder.pending.withEventName = NoCall => builder.eventName = Default

\* A state built for an event name is followed by one built without
\* withEventName, keyed "Default".
C18_Witness ==
    /\ Len(builder.built) = 2
    /\ builder.after[1].withEventName = "Car Cleaned"
    /\ builder.built[1].eventName = "Car Cleaned"
    /\ builder.after[2].withEventName = NoCall
    /\ builder.built[2].eventName = Default
    /\ builder.eventName = Default

\* The path the builder was constructed to use by default.
ConfiguredPath(b) ==
    IF b.props.entityId = NoPath THEN DetailIdPath ELSE b.props.entityId

\* C19: a state built with no withEntityId since the previous build (or
\* since construction) uses the path the builder was constructed with, and
\* $$.Execution.Input.detail.id when it was constructed with none.
C19_ConfiguredDefaultPathUsed ==
    \A i \in 1..Len(builder.built) :
       builder.after[i].withEntityId = NoCall
       => builder.built[i].entityId = ConfiguredPath(builder)

\* A state built with no withEntityId by a builder constructed with no
\* entityId uses $$.Execution.Input.detail.id, as does the builder's field
\* whenever no withEntityId is pending.
BuiltInDefaultPathUsed ==
    /\ \A i \in 1..Len(builder.built) :
          builder.after[i].withEntityId = NoCall
          => builder.built[i].entityId = DetailIdPath
    /\ builder.pending.withEntityId = NoCall => builder.entityId = DetailIdPath

\* C20: a state built after withEntityId(path) uses path, and a state built
\* with no withEntityId of its own does not inherit the path of the build
\* before it: it uses the builder's reset value.
C20_EntityIdOverridesOneState ==
    \A i \in 1..Len(builder.built) :
       /\ builder.after[i].withEntityId # NoCall
          => builder.built[i].entityId = builder.after[i].withEntityId
       /\ (/\ i > 1
           /\ builder.after[i - 1].withEntityId # NoCall
           /\ builder.after[i].withEntityId = NoCall)
          => /\ builder.built[i].entityId = DetailIdPath
             /\ \/ builder.built[i].entityId # builder.built[i - 1].entityId
                \/ builder.after[i - 1].withEntityId = DetailIdPath

\* A state built on an overriding path is followed by one built without
\* withEntityId, which does not use the override.
C20_Witness ==
    /\ Len(builder.built) = 2
    /\ builder.after[1].withEntityId = EntityIdPath
    /\ builder.built[1].entityId = EntityIdPath
    /\ builder.after[2].withEntityId = NoCall
    /\ builder.built[2].entityId # EntityIdPath

\* Every wait-state of the Parallel state the execution of `e` is in has
\* registered and none has been resumed.
AllPending(e) ==
    /\ exec[e].status = "running"
    /\ exec[e].node \in ParallelNodes
    /\ \A s \in NodeStates(exec[e].node) : exec[e].br[s] = "waiting"

\* C14: while all N wait-states of a Parallel state are pending the table
\* holds exactly N+1 items of the entity: one per branch, under the branch's
\* eventName, and the Default item.
C14_ParallelHoldsNPlusOne ==
    \A e \in Entities :
       AllPending(e)
       => /\ Cardinality(store[e]) = Cardinality(NodeStates(exec[e].node)) + 1
          /\ {it.eventName : it \in store[e]} =
                NodeKeys(exec[e].node) \cup {Default}

\* Both wait-states of the Sold state are pending, after the three of
\* InPreparation were resumed and their items deleted: three items.
C14_Witness ==
    \E e \in Entities :
        /\ AllPending(e)
        /\ exec[e].node = "Sold"
        /\ Cardinality(store[e]) = 3

\* C15: only items keyed "Default" carry an executionArn.
C15_ArnOnlyOnDefault ==
    \A e \in Entities : \A it \in store[e] :
       it.executionArn # None => it.eventName = Default

\* The Default item carries the executionArn while branch items, which carry
\* none, are in the table.
C15_Witness ==
    \E e \in Entities :
        /\ \E it \in store[e] : it.eventName = Default /\ it.executionArn # None
        /\ \E it \in store[e] : it.eventName # Default /\ it.executionArn = None

C17_RejectsIffNonWaitTask ==
    LET def == choreography.definition
        bad == {s \in AllStates(def) : NotAllowed(def, s)}
    IN  choreography.pc \in {"threw", "create", "created"}
        => /\ choreography.pc = "threw" <=> bad # {}
           /\ choreography.pc = "threw"
              => (choreography.error \in bad /\ ~choreography.stateMachine)

\* What checkDefinition does decide: the construction throws if and only if
\* a task that is no ChoreographyState is reached from the start state by
\* transitions alone; the error names the first such state found and no
\* state machine exists; a definition that passes gets its state machine
\* after the check.
RejectsIffNonWaitTaskOnTransitions ==
    LET def == choreography.definition
        bad == {s \in GraphOf(def, def.start) : NotAllowed(def, s)}
    IN  /\ choreography.pc \in {"threw", "create", "created"}
           => /\ choreography.pc = "threw" <=> bad # {}
              /\ choreography.pc = "threw"
                 => (choreography.error \in bad /\ ~choreography.stateMachine)
        /\ choreography.stateMachine => (choreography.pc = "created" /\ bad = {})

\* A definition whose only task that is no ChoreographyState sits in a branch
\* of a Parallel state has been given its state machine.
TaskInBranchAccepted ==
    LET def == choreography.definition
    IN  /\ choreography.pc = "created"
        /\ \E s \in AllStates(def) : NotAllowed(def, s)

\* A definition has been rejected for a task reached by transitions.
TaskOnTransitionsRejected ==
    /\ choreography.pc = "threw"
    /\ NotAllowed(choreography.definition, choreography.error)

\* C21: build() leaves _name alone: as long as no withName has followed the
\* last build, the builder's name is the name of the state built last, and
\* the state a further build() would construct carries that same name.
C21_BuildKeepsName ==
    (Len(builder.built) > 0 /\ builder.pending.withName = NoCall)
    => /\ builder.name = builder.built[Len(builder.built)].name
       /\ builder.name # Unnamed
       /\ ChoreographyState(builder).name = builder.built[Len(builder.built)].name

\* A state has been built, a setter other than withName has been called
\* since, and the builder still holds the built state's name.
C21_Witness ==
    /\ Len(builder.built) = 1
    /\ builder.pending.withName = NoCall
    /\ builder.pending.withEventName = "Car Repaired"
    /\ builder.name = "Clean"
    /\ builder.built[1].name = "Clean"

\* The tokens the execution of `e` has been issued.
IssuedTokens(e) == {TaskToken(e, n) : n \in 1..exec[e].n}

\* C22: a running execution takes a wait-state out of "entering" only into
\* "waiting", with a token never issued before and an item (entityId
\* resolved from the state's path, the state's eventName) carrying that
\* token in the table; and a waiting state stops waiting only in a step in
\* which a handler's sendTaskSuccess with the state's token resolves, unless
\* the execution is aborted.
C22_WaitStateRegistersAndBlocks ==
    [][\A e \in Entities : \A s \in StateNames :
          /\ (/\ exec[e].status = "running"
              /\ exec'[e].status = "running"
              /\ exec[e].br[s] = "entering"
              /\ exec'[e].br[s] # "entering")
             => /\ exec'[e].br[s] = "waiting"
                /\ exec'[e].tok[s] \notin IssuedTokens(e)
                /\ \E it \in store'[Resolved(BuiltState(s).entityId, e)] :
                      /\ it.eventName = BuiltState(s).eventName
                      /\ it.taskToken = exec'[e].tok[s]
          /\ (/\ exec[e].status = "running"
              /\ exec[e].br[s] = "waiting"
              /\ (exec'[e].br[s] # "waiting" \/ exec'[e].status # "running"))
             => \/ exec'[e].status = "aborted"
                \/ \E h \in Handlers :
                      /\ Len(corr'[h].calls) = Len(corr[h].calls) + 1
                      /\ corr'[h].calls[Len(corr'[h].calls)] =
                            Call("signal", exec[e].tok[s],
                                 Output(corr[h].event), TRUE)]_vars

\* A later wait-state of the execution (the fifth entry, ReadyForSale) waits
\* with its token in the Default item, the earlier states resumed by signals.
C22_Witness ==
    \E e \in Entities :
        /\ exec[e].status = "running"
        /\ exec[e].br["ReadyForSale"] = "waiting"
        /\ exec[e].tok["ReadyForSale"] = TaskToken(e, 5)
        /\ \E it \in store[e] : /\ it.eventName = Default
                                /\ it.taskToken = TaskToken(e, 5)

\* The sendTaskSuccess calls of both handler slots that carry `token`.
SignalsWith(token) ==
    {c \in UNION {{<<h, n>> : n \in 1..Len(corr[h].calls)} : h \in Handlers} :
        /\ corr[c[1]].calls[c[2]].op = "signal"
        /\ corr[c[1]].calls[c[2]].arg = token}

\* C23: of all sendTaskSuccess calls made with one token by concurrent
\* invocations at most one resolves, and the token's task waits no longer
\* once one has; an invocation makes at most one sendTaskSuccess call, and
\* one whose call was rejected has ended by that error with no call after it.
C23_SameKeyRaceResumesOnce ==
    /\ \A h \in Handlers :
          /\ Len(CallsOf(corr[h], "signal")) <= 1
          /\ LastCallRejected(corr[h], "signal")
             => (corr[h].pc = "failed" /\ corr[h].ret = "TaskTimedOut")
          /\ \A n \in 1..Len(corr[h].calls) :
                (corr[h].calls[n].op = "signal" /\ ~corr[h].calls[n].ok)
                => n = Len(corr[h].calls)
    /\ \A e \in Entities : \A t \in IssuedTokens(e) :
          /\ Cardinality({c \in SignalsWith(t) : corr[c[1]].calls[c[2]].ok}) <= 1
          /\ (\E c \in SignalsWith(t) : corr[c[1]].calls[c[2]].ok)
             => ~TokenPending(t)

\* Two invocations for the same event in parallel-wait mode both read the
\* branch item and both called sendTaskSuccess with its token: one resolved,
\* the other was rejected.
C23_Witness ==
    /\ corr["h1"].mode = "parallel"
    /\ corr["h2"].mode = "parallel"
    /\ corr["h1"].event.eventName = "Car Cleaned"
    /\ corr["h2"].event.eventName = "Car Cleaned"
    /\ corr["h1"].taskToken = corr["h2"].taskToken
    /\ \E it \in corr["h1"].items \cap corr["h2"].items :
          it.eventName = "Car Cleaned" /\ it.taskToken = corr["h1"].taskToken
    /\ Len(CallsOf(corr["h1"], "signal")) = 1
    /\ CallsOf(corr["h1"], "signal")[1].ok
    /\ LastCallRejected(corr["h2"], "signal")
    /\ exec["car-1"].br["Clean"] = "done"

\* C24: stopExecution is called only by an event_handler invocation in
\* parallel-wait mode (more than one item queried) in which no item other
\* than the Default item is named as the event, and which has called neither
\* sendTaskSuccess nor deleteItem; initialize_workflow calls startExecution
\* and updateItem only; and an execution becomes aborted only in a step in
\* which such a stopExecution call resolves.
C24_AbortOnlyOnParallelNoMatch ==
    /\ [](/\ \A h \in Handlers : \A n \in 1..Len(corr[h].calls) :
               corr[h].calls[n].op = "abort"
               => /\ corr[h].mode = "parallel"
                  /\ Cardinality(corr[h].items) > 1
                  /\ Unmatched(corr[h])
                  /\ CallsOf(corr[h], "signal") = <<>>
                  /\ CallsOf(corr[h], "delete") = <<>>
          /\ \A n \in 1..Len(init.calls) : init.calls[n].op \in {"start", "put"})
    /\ [][\A e \in Entities :
            (exec[e].status # "aborted" /\ exec'[e].status = "aborted")
            => \E h \in Handlers :
                  /\ Len(corr'[h].calls) = Len(corr[h].calls) + 1
                  /\ corr'[h].calls[Len(corr'[h].calls)] =
                        Call("abort", ExecutionArn(e), Cause(corr[h].event), TRUE)
                  /\ Unmatched(corr[h])]_vars

\* An invocation in parallel-wait mode found no match and its stopExecution
\* has aborted the execution.
C24_Witness ==
    \E h \in Handlers :
        /\ corr[h].mode = "parallel"
        /\ Unmatched(corr[h])
        /\ Len(CallsOf(corr[h], "abort")) = 1
        /\ CallsOf(corr[h], "abort")[1].ok
        /\ exec[corr[h].event.entityId].status = "aborted"

\* What an invocation does after its scan: the call it makes next with the
\* token or the execution it makes it on, or the error it ends by.
Outcome(c) ==
    [pc |-> c.pc, ret |-> c.ret,
     taskToken |-> IF c.pc = "signal" THEN c.taskToken ELSE None,
     executionArn |-> IF c.pc = "stop" THEN c.executionArn ELSE None]

\* C25: in parallel-wait mode the handler's outcome is the same for every
\* order in which the query may hand back the entity's items.
C25_ScanOrderIndependent ==
    \A h \in Handlers :
       (corr[h].pc = "query" /\ Cardinality(store[corr[h].event.entityId]) > 1)
       => \A o1, o2 \in QueryOrders(store[corr[h].event.entityId]) :
             Outcome(Queried(corr[h], o1)) = Outcome(Queried(corr[h], o2))

\* C25 where the Default item carries an executionArn.
ScanOrderIndependentGivenArn ==
    \A h \in Handlers :
       (/\ corr[h].pc = "query"
        /\ Cardinality(store[corr[h].event.entityId]) > 1
        /\ \A it \in DefaultItems(corr[h].event.entityId) : it.executionArn # None)
       => \A o1, o2 \in QueryOrders(store[corr[h].event.entityId]) :
             Outcome(Queried(corr[h], o1)) = Outcome(Queried(corr[h], o2))

\* An invocation is about to scan several items, a match among them, with a
\* Default item that carries an executionArn.
ScanOfSeveralItems ==
    \E h \in Handlers :
        /\ corr[h].pc = "query"
        /\ Cardinality(store[corr[h].event.entityId]) > 2
        /\ \E it \in store[corr[h].event.entityId] :
              it.eventName = corr[h].event.eventName /\ it.eventName # Default
        /\ \A it \in DefaultItems(corr[h].event.entityId) : it.executionArn # None

\* The Correlator's invocation for the event last put on the bus, with the
\* entityId read at the path of the events-list entry i.
DispatchedFor(i) ==
    [target |-> "EventHandler", name |-> "-",
     input |-> [detail |-> insights.put.detail,
                eventName |-> insights.put.detailType,
                entityId |-> FromPath(GetEntityId(choreography.events[i]),
                                      insights.put)]]

\* C26: an event put on the bus that matches any pattern of the bound
\* Choreography's events list is dispatched to the Correlator with its
\* entityId and its eventName.
C26_EveryMatcherBound ==
    insights.put # NoBusEvent
    => \A i \in 1..Len(choreography.events) :
          Matches(choreography.events[i].pattern, insights.put)
          => DispatchedFor(i) \in insights.invocations

\* C26 for the first entry of the events list alone.
FirstMatcherBound ==
    (/\ insights.put # NoBusEvent
     /\ Matches(choreography.events[1].pattern, insights.put))
    => DispatchedFor(1) \in insights.invocations

\* An event matching the first pattern of a two-entry list was dispatched.
FirstMatcherDispatched ==
    /\ Len(choreography.events) = 2
    /\ insights.put # NoBusEvent
    /\ Matches(choreography.events[1].pattern, insights.put)
    /\ ~Matches(choreography.events[2].pattern, insights.put)
    /\ DispatchedFor(1) \in insights.invocations

\* The invocation has handled an event of the preparation step whose item it
\* found in its scan, and no call it made was refused.
HandledPreparationEvent(h) ==
    /\ Finished(corr[h])
    /\ corr[h].event.eventName \in PreparationKeys
    /\ Matching(corr[h]) # {}
    /\ \A i \in 1..Len(corr[h].calls) : corr[h].calls[i].ok

\* The wait-state of InPreparation registered under the event name.
PreparationState(n) ==
    CHOOSE s \in NodeStates("InPreparation") : BuiltState(s).eventName = n

\* The execution has left InPreparation for ReadyForSale or a later state.
PastPreparation(e) ==
    exec[e].status # "none" /\ exec[e].node \notin {"Announced", "InPreparation"}

\* Each of the events Car Cleaned, Car Repaired and Car Priced, handled
\* while its wait-state of InPreparation is registered, completes its
\* branch, in whatever order the three are handled; the execution is at
\* InPreparation only while one of the three branches is not completed.
PreparationCompletesWhenHandled ==
    /\ \A h \in Handlers :
          HandledPreparationEvent(h)
          => LET e == corr[h].event.entityId
                 s == PreparationState(corr[h].event.eventName)
             IN  exec[e].br[s] = "done" \/ PastPreparation(e)
    /\ \A e \in Entities :
          (exec[e].node = "InPreparation"
           => \E s \in NodeStates("InPreparation") : exec[e].br[s] # "done")

\* A branch of InPreparation is completed only by the signal of an
\* invocation handling the event the branch waits for, and InPreparation is
\* left only by such a step.
PreparationOnlyByItsEvents ==
    [][\A e \in Entities :
          /\ \A s \in NodeStates("InPreparation") :
                (exec[e].node = "InPreparation" /\ exec[e].br[s] = "waiting"
                 /\ exec'[e].br[s] # "waiting")
                => \E h \in Handlers :
                      /\ corr[h].pc = "signal"
                      /\ CorrStep(h)
                      /\ corr[h].event.entityId = e
                      /\ corr[h].event.eventName = BuiltState(s).eventName
          /\ (exec[e].node = "InPreparation" /\ exec'[e].node # "InPreparation")
             => /\ exec'[e].node = "ReadyForSale"
                /\ \E s \in NodeStates("InPreparation") :
                      /\ exec[e].br[s] = "waiting"
                      /\ \A r \in NodeStates("InPreparation") \ {s} :
                            exec[e].br[r] = "done"]_vars

\* C27: from InPreparation with its wait-states registered, each of the
\* events Car Cleaned, Car Repaired and Car Priced handled once completes its
\* branch, in any order of the three, and the third takes the execution to
\* ReadyForSale; InPreparation is not left while one of the three has not
\* been handled.
C27_PreparationCompletes ==
    []PreparationCompletesWhenHandled /\ PreparationOnlyByItsEvents

\* The third event of the preparation step has been handled and the
\* execution waits at ReadyForSale.
PreparationCompleted ==
    \E h \in Handlers :
        /\ HandledPreparationEvent(h)
        /\ corr[h].ret = "200 OK"
        /\ exec[corr[h].event.entityId].node = "ReadyForSale"
        /\ exec[corr[h].event.entityId].br["ReadyForSale"] = "waiting"

\* The transitions the order workflow documents: from a wait-state, on an
\* event, to the next state.
OrderTransitions ==
    {<<"WaitForConfirmation", "Order Confirmed", "WaitForServiceProviderAccept">>,
     <<"WaitForServiceProviderAccept", "Order Accepted",
       "WaitForServiceProviderDelivery">>,
     <<"WaitForServiceProviderAccept", "Order Rejected", "WaitForCanceled">>,
     <<"WaitForServiceProviderDelivery", "Order Delivered", "OrderCompleted">>,
     <<"WaitForServiceProviderDelivery", "Order Canceled", "OrderCanceled">>,
     <<"WaitForCanceled", "Order Canceled", "OrderCanceled">>}

\* The state an order at wait-state s is in once resumed with event n, and
\* the status of its execution there.
DocumentedNext(s, n) ==
    IF \E tr \in OrderTransitions : tr[1] = s /\ tr[2] = n
    THEN (CHOOSE tr \in OrderTransitions : tr[1] = s /\ tr[2] = n)[3]
    ELSE "UnexpectedTransition"

DocumentedStatus(node) ==
    CASE node = "UnexpectedTransition" -> "failed"
      [] node \in {"OrderCompleted", "OrderCanceled"} -> "succeeded"
      [] OTHER -> "running"

\* The invocation has handled an event for an order whose one item carried
\* a token, and no call it made was refused.
HandledOrderEvent(h) ==
    /\ Finished(corr[h])
    /\ corr[h].event.entityId \in OrderEntities
    /\ corr[h].mode = "single"
    /\ \A it \in corr[h].items : it.taskToken # None
    /\ \A i \in 1..Len(corr[h].calls) : corr[h].calls[i].ok

\* An event of any type handled at a wait-state of the order workflow has
\* resumed that state, and the order is where the workflow documents.
OrderResumedOnAnyEvent ==
    \A h \in Handlers :
        HandledOrderEvent(h)
        => LET e == corr[h].event.entityId
           IN  \E s \in OrderWaitNodes :
                  /\ \A it \in corr[h].items : exec[e].tok[s] = it.taskToken
                  /\ exec[e].node = DocumentedNext(s, corr[h].event.eventName)
                  /\ exec[e].status = DocumentedStatus(exec[e].node)

\* An order leaves a wait-state only by the signal of an invocation handling
\* an event for it, and goes where the workflow documents for that event.
OrderFollowsTransitions ==
    [][\A e \in OrderEntities :
          (exec[e].node \in OrderWaitNodes /\ exec'[e].node # exec[e].node)
          => \E h \in Handlers :
                /\ corr[h].pc = "signal"
                /\ CorrStep(h)
                /\ corr[h].event.entityId = e
                /\ exec'[e].node =
                      DocumentedNext(exec[e].node, corr[h].event.eventName)
                /\ exec'[e].status = DocumentedStatus(exec'[e].node)]_vars

\* C28: at each wait-state of the order workflow the Correlator resumes the
\* order on an event of any type; the order then goes to the state the
\* workflow documents for an expected event (Order Confirmed; Order Accepted
\* or Order Rejected; Order Delivered or Order Canceled; ending in
\* OrderCompleted or OrderCanceled) and to the Fail state
\* UnexpectedTransition for every other event.
C28_OrderChoiceDiscriminates ==
    []OrderResumedOnAnyEvent /\ OrderFollowsTransitions

\* An order confirmed, accepted and delivered has ended in OrderCompleted.
OrderCompleted ==
    \E h \in Handlers :
        /\ HandledOrderEvent(h)
        /\ corr[h].event.eventName = "Order Delivered"
        /\ corr[h].ret = "200 OK"
        /\ exec[corr[h].event.entityId].node = "OrderCompleted"
        /\ exec[corr[h].event.entityId].status = "succeeded"

\* An order has failed in UnexpectedTransition on an event its wait-state
\* does not expect.
OrderUnexpected ==
    \E h \in Handlers :
        /\ HandledOrderEvent(h)
        /\ corr[h].ret = "200 OK"
        /\ exec[corr[h].event.entityId].node = "UnexpectedTransition"
        /\ exec[corr[h].event.entityId].tok["WaitForCanceled"] # None

\* Whenever an invocation is at the stopExecution call its scan met a
\* Default item with an executionArn, and the call names the execution the
\* Initiator started for the entity.
AbortTargetWhenReached ==
    \A h \in Handlers :
        corr[h].pc = "stop"
        => /\ \E it \in corr[h].items :
                 it.eventName = Default /\ it.executionArn # None
           /\ corr[h].executionArn = ExecutionArn(corr[h].event.entityId)
           /\ exec[corr[h].event.entityId].status # "none"

\* C30: in every interleaving of the Initiator's write, the wait-state
\* registrations and the deliveries, a parallel-wait invocation never fails
\* reading the Default item, and at the stopExecution call the scanned items
\* hold a Default item with an executionArn, the one the Initiator obtained
\* for the entity, which the call names.
C30_AbortTargetDefined ==
    /\ AbortTargetWhenReached
    /\ \A h \in Handlers :
          corr[h].mode = "parallel" => corr[h].ret # "TypeError"

\* An invocation is at the stopExecution call with the Initiator's
\* executionArn.
AbortCallReached ==
    \E h \in Handlers :
        /\ corr[h].pc = "stop"
        /\ corr[h].executionArn = ExecutionArn(corr[h].event.entityId)
        /\ exec[corr[h].event.entityId].status = "running"

\* The car's execution has completed the Sold state and ended.
SoldCompleted ==
    exec["car-1"].node = "End" /\ exec["car-1"].status = "succeeded"

\* The car's execution is neither aborted nor failed.
NeverAbortedNorUnexpected ==
    exec["car-1"].status \notin {"aborted", "failed"}

DefaultKeyed == {s \in StateNames : BuiltState(s).eventName = Default}

\* The tokens the execution of `e` has registered under the key "Default".
DefaultTokens(e) == {exec[e].tok[s] : s \in DefaultKeyed} \ {None}

\* The token registered last under the key "Default" by the execution of `e`.
LastDefaultToken(e) ==
    CHOOSE t \in DefaultTokens(e) :
        \A n \in 1..exec[e].n :
            TaskToken(e, n) \in DefaultTokens(e)
            => \E m \in n..exec[e].n : t = TaskToken(e, m)

\* The Default items of `e` after the step.
DefaultItemsAfter(e) == {it \in store'[e] : it.eventName = Default}

\* C31: the Initiator's updateItem and the updateItem of a wait-state keyed
\* "Default" write the one item (entityId, "Default") and keep each other's
\* attribute: once the Initiator has returned 200 OK and such a wait-state
\* has registered, in either order, the item carries the executionArn and
\* the token registered last; and no step takes an attribute the item
\* carries away from it.
C31_DefaultWritesKeepEachOther ==
    /\ [](\A e \in Entities :
            (init.pc = "done" /\ init.name = e /\ DefaultTokens(e) # {})
            => /\ Cardinality(DefaultItems(e)) = 1
               /\ \A it \in DefaultItems(e) :
                     /\ it.executionArn = ExecutionArn(e)
                     /\ it.taskToken = LastDefaultToken(e))
    /\ [][\A e \in Entities : \A old \in DefaultItems(e) :
            \E new \in DefaultItemsAfter(e) :
                /\ old.executionArn # None => new.executionArn = old.executionArn
                /\ old.taskToken # None => new.taskToken # None]_vars

\* The Initiator's write came second: an invocation read the Default item
\* with the wait-state's token and no executionArn, and the item now carries
\* that token and the executionArn.
InitiatorWroteSecond ==
    \E h \in Handlers :
        /\ corr[h].mode = "single"
        /\ \A it \in corr[h].items :
              /\ it.eventName = Default
              /\ it.taskToken # None
              /\ it.executionArn = None
              /\ [it EXCEPT !.executionArn = ExecutionArn(corr[h].event.entityId)]
                    \in store[corr[h].event.entityId]

\* The wait-state's write came second: an invocation read the Default item
\* with the executionArn and no token (and failed on it), and the item now
\* carries that executionArn and a token.
WaitStateWroteSecond ==
    \E h \in Handlers :
        /\ corr[h].mode = "single"
        /\ corr[h].ret = "TypeError"
        /\ \A it \in corr[h].items :
              /\ it.eventName = Default
              /\ it.taskToken = None
              /\ it.executionArn # None
              /\ \E now \in store[corr[h].event.entityId] :
                    /\ now.eventName = Default
                    /\ now.executionArn = it.executionArn
                    /\ now.taskToken # None

\* C32: the item (entityId, "Default") is never deleted: a step that starts
\* with the item in the table ends with it there, whatever the state of the
\* execution; every deleteItem call names another key; and an invocation
\* finds no item only if the entity has no Default item.
C32_DefaultNeverDeleted ==
    /\ [](\A h \in Handlers : \A n \in 1..Len(corr[h].calls) :
            corr[h].calls[n].op = "delete" => corr[h].calls[n].arg # Default)
    /\ [][\A e \in Entities :
            DefaultItems(e) # {} => DefaultItemsAfter(e) # {}]_vars
    /\ [][\A h \in Handlers :
            (CorrStep(h) /\ corr'[h].mode = "zero")
            => DefaultItems(corr'[h].event.entityId) = {}]_vars

\* The execution has ended, its branch items were deleted by the
\* invocations that resumed them, and the Default item is still there.
DefaultOutlivesExecution ==
    \E e \in Entities :
        /\ exec[e].status = "succeeded"
        /\ DefaultItems(e) # {}
        /\ store[e] = DefaultItems(e)
        /\ \E h \in Handlers : /\ corr[h].event.entityId = e
                               /\ Len(CallsOf(corr[h], "delete")) = 1
                               /\ CallsOf(corr[h], "delete")[1].ok

\* The execution was aborted after a branch was resumed and its item
\* deleted: the Default item is still there, with the items of the branches
\* that waited.
DefaultOutlivesAbort ==
    \E e \in Entities :
        /\ exec[e].status = "aborted"
        /\ exec[e].node = "InPreparation"
        /\ \E s \in NodeStates("InPreparation") :
              /\ exec[e].br[s] = "done"
              /\ \A it \in store[e] : it.taskToken # exec[e].tok[s]
        /\ Cardinality(DefaultItems(e)) = 1
        /\ Cardinality(store[e]) > 1

\* The tokens of the Default items the invocation read.
DefaultTokensRead(c) ==
    {it.taskToken : it \in {d \in c.items : d.eventName = Default}}

\* The invocation has neither signalled, nor is about to signal, with the
\* token of the Default item it read, and has deleted nothing under the key
\* "Default".
DefaultUntouched(c) ==
    /\ c.pc = "signal" => c.taskToken \notin DefaultTokensRead(c)
    /\ \A n \in 1..Len(c.calls) :
          /\ c.calls[n].op = "signal" => c.calls[n].arg \notin DefaultTokensRead(c)
          /\ c.calls[n].op = "delete" => c.calls[n].arg # Default

\* The invocation has ended after one stopExecution call on the executionArn
\* of the Default item it read, with no sendTaskSuccess and no deleteItem.
EndedInAbort(c) ==
    /\ Len(c.calls) = 2
    /\ c.calls[2].op = "abort"
    /\ \E it \in c.items :
          it.eventName = Default /\ c.calls[2].arg = it.executionArn

\* C33: a parallel-wait invocation never signals with the token of the
\* Default item and never deletes that item, whatever its event; and one
\* whose event is named "Default" ends in the abort of the execution.
C33_DefaultNeverMatched ==
    \A h \in Handlers :
        corr[h].mode = "parallel"
        => /\ DefaultUntouched(corr[h])
           /\ (corr[h].event.eventName = Default /\ Finished(corr[h]))
              => EndedInAbort(corr[h])

\* C33 with the abort claimed only of a scan whose Default item carries an
\* executionArn: the one case C33 fails in is the Default item without one.
DefaultNeverMatchedGivenArn ==
    \A h \in Handlers :
        corr[h].mode = "parallel"
        => /\ DefaultUntouched(corr[h])
           /\ (/\ corr[h].event.eventName = Default
               /\ Finished(corr[h])
               /\ \A it \in corr[h].items :
                     it.eventName = Default => it.executionArn # None)
              => EndedInAbort(corr[h])

\* An event named "Default" met several items, the Default item with its
\* token among them, and the invocation aborted the execution.
DefaultEventAborted ==
    \E h \in Handlers :
        /\ corr[h].mode = "parallel"
        /\ corr[h].event.eventName = Default
        /\ corr[h].ret = "200 OK"
        /\ EndedInAbort(corr[h])
        /\ None \notin DefaultTokensRead(corr[h])
        /\ exec[corr[h].event.entityId].status = "aborted"
        /\ store[corr[h].event.entityId] = corr[h].items

\* The event of the invocation about to query is one the Parallel state the
\* execution is in was waiting for and has been resumed by already: the
\* branch named for it has completed and its item is deleted, the Default
\* item and the item of a branch still waiting remain.
Redelivered(c) ==
    LET e == c.event.entityId
    IN  /\ c.pc = "query"
        /\ exec[e].status = "running"
        /\ exec[e].node \in ParallelNodes
        /\ Cardinality(store[e]) >= 2
        /\ DefaultItems(e) # {}
        /\ \A it \in store[e] : it.eventName # c.event.eventName
        /\ \E s \in NodeStates(exec[e].node) :
              /\ exec[e].br[s] = "done"
              /\ BuiltState(s).eventName = c.event.eventName
        /\ \E s \in NodeStates(exec[e].node) :
              /\ exec[e].br[s] = "waiting"
              /\ \E it \in store[e] : it.taskToken = exec[e].tok[s]

\* C34: the query of a redelivered branch event in parallel-wait mode finds
\* no match and the invocation goes on to stopExecution on the entity's
\* execution; the call, when it resolves, leaves the execution aborted.
C34_RedeliveryAborts ==
    [][\A h \in Handlers :
          /\ (Redelivered(corr[h]) /\ corr'[h].mode = "parallel")
             => /\ Unmatched(corr'[h])
                /\ corr'[h].pc = "stop"
                /\ corr'[h].executionArn = ExecutionArn(corr[h].event.entityId)
          /\ (corr[h].pc = "stop" /\ corr'[h].pc = "done")
             => exec'[corr[h].event.entityId].status # "running"]_vars

\* C34 for a Default item that carries an executionArn: the one case C34
\* fails in is the Default item without one.
RedeliveryAbortsGivenArn ==
    [][\A h \in Handlers :
          /\ (/\ Redelivered(corr[h])
              /\ corr'[h].mode = "parallel"
              /\ \A it \in DefaultItems(corr[h].event.entityId) :
                    it.executionArn # None)
             => /\ Unmatched(corr'[h])
                /\ corr'[h].pc = "stop"
                /\ corr'[h].executionArn = ExecutionArn(corr[h].event.entityId)
          /\ (corr[h].pc = "stop" /\ corr'[h].pc = "done")
             => exec'[corr[h].event.entityId].status # "running"]_vars

\* Car Cleaned, delivered again after it had resumed its branch, has aborted
\* the execution that was still waiting for a sibling branch.
RedeliveryAborted ==
    \E h \in Handlers :
        LET e == corr[h].event.entityId
        IN  /\ corr[h].mode = "parallel"
            /\ corr[h].event.eventName = "Car Cleaned"
            /\ corr[h].ret = "200 OK"
            /\ EndedInAbort(corr[h])
            /\ exec[e].status = "aborted"
            /\ exec[e].node = "InPreparation"
            /\ exec[e].br["Clean"] = "done"
            /\ \E s \in {"Repair", "Evaluate"} : exec[e].br[s] = "waiting"
            /\ \A it \in corr[h].items : it.eventName # "Car Cleaned"

\* The step is the stopExecution of the invocation in slot h resolving.
AbortStep(h) == corr[h].pc = "stop" /\ corr'[h].pc = "done"

\* C35: an execution in a Parallel state is aborted only by an invocation
\* whose event is named for none of that state's wait-states, registered or
\* not: an event for a branch handled before the branch has registered does
\* not abort it.
C35_AbortOnlyForForeignEvent ==
    [][\A e \in Entities :
          (/\ exec[e].status = "running"
           /\ exec'[e].status = "aborted"
           /\ exec[e].node \in ParallelNodes)
          => \A h \in Handlers :
                AbortStep(h) => corr[h].event.eventName \notin NodeKeys(exec[e].node)]_vars

\* The execution was aborted for Car Cleaned while its Clean branch was
\* still to register and a sibling branch had registered.
AbortedBeforeRegistration ==
    \E h \in Handlers :
        LET e == corr[h].event.entityId
        IN  /\ corr[h].event.eventName = "Car Cleaned"
            /\ corr[h].ret = "200 OK"
            /\ EndedInAbort(corr[h])
            /\ exec[e].status = "aborted"
            /\ exec[e].node = "InPreparation"
            /\ exec[e].br["Clean"] = "entering"
            /\ \E s \in {"Repair", "Evaluate"} :
                  /\ exec[e].br[s] = "waiting"
                  /\ \E it \in corr[h].items : it.taskToken = exec[e].tok[s]

\* The errors by which the engine rejects a sendTaskSuccess call.
SignalRejections == {"TaskTimedOut", "EngineError"}

\* The step is the query of slot h resolving with exactly one item.
SingleQueried(h) == corr[h].pc = "query" /\ corr'[h].mode = "single"

\* The step is the sendTaskSuccess of a single-wait invocation in slot h
\* made with a token no task waits for.
StaleSignalStep(h) ==
    /\ corr[h].pc = "signal"
    /\ corr[h].mode = "single"
    /\ CorrStep(h)
    /\ ~TokenPending(corr[h].taskToken)

\* The step ends the invocation in slot h by the engine's rejection of its
\* sendTaskSuccess and changes neither the table nor the executions.
RejectedUnchanged(h) ==
    /\ corr'[h].pc = "failed"
    /\ corr'[h].ret \in SignalRejections
    /\ LastCallRejected(corr'[h], "signal")
    /\ Len(corr'[h].calls) = 2
    /\ store' = store
    /\ exec' = exec

\* C36: a single-wait invocation goes from the query to sendTaskSuccess with
\* whatever the item holds as its token, no task waiting for it or none
\* there at all; the engine rejects the call made with such a token, the
\* invocation ends by that error and the table is as it was.
C36_SingleWaitSignalsUnchecked ==
    [][\A h \in Handlers :
          /\ SingleQueried(h)
             => /\ corr'[h].pc = "signal"
                /\ \A it \in corr'[h].items : corr'[h].taskToken = it.taskToken
          /\ StaleSignalStep(h) => RejectedUnchanged(h)]_vars

\* C36 for an item that carries a taskToken: the one case C36 fails in is
\* the item without one.
SingleWaitSignalsUncheckedGivenToken ==
    [][\A h \in Handlers :
          /\ (SingleQueried(h) /\ \A it \in corr'[h].items : it.taskToken # None)
             => /\ corr'[h].pc = "signal"
                /\ \A it \in corr'[h].items : corr'[h].taskToken = it.taskToken
          /\ StaleSignalStep(h) => RejectedUnchanged(h)]_vars

\* An event met the Default item the Initiator wrote before the first
\* wait-state registered: the invocation ended by a TypeError with no call to
\* the engine.
AbsentTokenThrows ==
    \E h \in Handlers :
        /\ corr[h].mode = "single"
        /\ corr[h].pc = "failed"
        /\ corr[h].ret = "TypeError"
        /\ CallsOf(corr[h], "signal") = <<>>
        /\ \A it \in corr[h].items :
              it.taskToken = None /\ it.executionArn # None
        /\ exec[corr[h].event.entityId].br["Announced"] = "entering"

\* An event met the token of a wait-state resumed already, the next
\* wait-state still to register: the engine rejected the call.
ConsumedTokenRejected ==
    \E h \in Handlers :
        LET e == corr[h].event.entityId
        IN  /\ corr[h].mode = "single"
            /\ corr[h].pc = "failed"
            /\ corr[h].ret = "TaskTimedOut"
            /\ LastCallRejected(corr[h], "signal")
            /\ corr[h].taskToken = exec[e].tok["Announced"]
            /\ exec[e].status = "running"
            /\ exec[e].node = "InPreparation"
            /\ \A s \in NodeStates("InPreparation") : exec[e].br[s] = "entering"
            /\ store[e] = corr[h].items

\* The same after the execution has ended.
ConsumedTokenRejectedAfterEnd ==
    \E h \in Handlers :
        LET e == corr[h].event.entityId
        IN  /\ corr[h].mode = "single"
            /\ corr[h].pc = "failed"
            /\ corr[h].ret = "TaskTimedOut"
            /\ LastCallRejected(corr[h], "signal")
            /\ exec[e].status \in {"succeeded", "failed"}
            /\ store[e] = corr[h].items

\* The wait-state of the execution of `e` registered under `key`, a branch
\* key.
BranchOf(key) == CHOOSE s \in CarStateNames : BuiltState(s).eventName = key

\* The invocation was given the event of a branch.
ForBranch(c) == c.event.eventName \in BranchKeys

\* The invocation has done, so far, what resuming its branch takes: a scan in
\* parallel-wait mode that found the branch's item, then sendTaskSuccess
\* with the branch's token, then deleteItem on the branch's key, each
\* accepted, and the return of 200 OK; no stopExecution and no failure.
ResumesItsBranch(c) ==
    LET e == c.event.entityId
        s == BranchOf(c.event.eventName)
        signal == Call("signal", exec[e].tok[s], Output(c.event), TRUE)
        delete == Call("delete", c.event.eventName, None, TRUE)
        query == Call("query", e, None, TRUE)
    IN  CASE c.pc = "query" -> c.calls = <<>>
          [] c.pc = "signal" ->
                /\ c.mode = "parallel"
                /\ c.taskToken = exec[e].tok[s]
                /\ c.calls = <<query>>
          [] c.pc = "delete" -> c.calls = <<query, signal>>
          [] c.pc = "done" ->
                /\ c.ret = "200 OK"
                /\ c.calls = <<query, signal, delete>>
          [] OTHER -> FALSE

\* No invocation is under way.
Quiescent == \A h \in Handlers : corr[h].pc \in {"idle", "done", "failed"}

\* The keys of the items of `e` other than the Default item.
BranchItemKeys(e) == {it.eventName : it \in store[e]} \ {Default}

\* The keys of the branches of `e` that wait.
WaitingBranchKeys(e) ==
    {BuiltState(s).eventName :
        s \in {b \in CarStateNames : exec[e].br[b] = "waiting"}} \ {Default}

\* C37: of the events of the pending branches of a Parallel state, each
\* handled once and in any interleaving of two invocations, every one
\* resumes its own branch with that branch's token and deletes that branch's
\* item, none stops the execution; with no invocation under way the items
\* left are the Default item and those of the branches still waiting, the
\* Default item alone once the Parallel state is left.
C37_BranchEventsCommute ==
    /\ \A h \in Handlers : ForBranch(corr[h]) => ResumesItsBranch(corr[h])
    /\ \A e \in Entities :
          (Quiescent /\ exec[e].status # "none")
          => /\ BranchItemKeys(e) = WaitingBranchKeys(e)
             /\ exec[e].n > 0
                => Cardinality(store[e]) = Cardinality(BranchItemKeys(e)) + 1

\* C37 for invocations that did not read a Default item without an
\* executionArn: the one case C37 fails in is that item.
BranchEventsCommuteGivenArn ==
    /\ \A h \in Handlers :
          (/\ ForBranch(corr[h])
           /\ \A it \in corr[h].items :
                 it.eventName = Default => it.executionArn # None)
          => ResumesItsBranch(corr[h])
    /\ \A e \in Entities :
          (Quiescent /\ exec[e].status # "none")
          => /\ BranchItemKeys(e) = WaitingBranchKeys(e)
             /\ exec[e].n > 0
                => Cardinality(store[e]) = Cardinality(BranchItemKeys(e)) + 1

\* Two invocations for different branches have both signalled and neither
\* has deleted yet.
BranchEventsRaced ==
    /\ corr["h1"].pc = "delete"
    /\ corr["h2"].pc = "delete"
    /\ corr["h1"].event.eventName # corr["h2"].event.eventName
    /\ corr["h1"].items = corr["h2"].items
    /\ Cardinality(corr["h1"].items) = 4

\* Both Parallel states were passed by concurrent invocations and the
\* execution has ended with the Default item alone in the table.
BranchesDrained ==
    /\ exec["car-1"].status = "succeeded"
    /\ Quiescent
    /\ store["car-1"] = DefaultItems("car-1")
    /\ {corr["h1"].event.eventName, corr["h2"].event.eventName} = SoldKeys
    /\ corr["h1"].items = corr["h2"].items

\* The calls the invocation has made to the Workflow Engine.
EngineCalls(c) == SelectSeq(c.calls, LAMBDA x : x.op \in {"signal", "abort"})

\* C38: an event_handler invocation makes its query first and exactly once,
\* at most one call to the engine (a sendTaskSuccess or a stopExecution,
\* never both), at most one deleteItem, and a deleteItem only directly after
\* its sendTaskSuccess resolved; it makes no other call.
C38_OneReadOneEngineCallOneDelete ==
    \A h \in Handlers :
        LET c == corr[h]
        IN  /\ \A n \in 1..Len(c.calls) :
                  c.calls[n].op \in {"query", "signal", "abort", "delete"}
            /\ Len(CallsOf(c, "query")) = IF c.pc \in {"idle", "query"} THEN 0 ELSE 1
            /\ Len(c.calls) > 0 => c.calls[1].op = "query"
            /\ Len(EngineCalls(c)) <= 1
            /\ Len(CallsOf(c, "delete")) <= 1
            /\ Len(CallsOf(c, "delete")) = 1
               => /\ Len(c.calls) = 3
                  /\ c.calls[2].op = "signal"
                  /\ c.calls[2].ok
                  /\ c.calls[3].op = "delete"
            /\ Finished(c) => Len(c.calls) \in 1..3

\* An invocation has made one call of each kind it can make together: the
\* query, a sendTaskSuccess that resolved and the deleteItem.
ReadSignalDelete ==
    \E h \in Handlers :
        /\ Finished(corr[h])
        /\ Len(corr[h].calls) = 3
        /\ Len(CallsOf(corr[h], "query")) = 1
        /\ Len(CallsOf(corr[h], "signal")) = 1
        /\ Len(CallsOf(corr[h], "delete")) = 1

\* An invocation has made the query and a stopExecution and nothing else.
ReadAbort ==
    \E h \in Handlers :
        /\ Finished(corr[h])
        /\ Len(corr[h].calls) = 2
        /\ Len(CallsOf(corr[h], "abort")) = 1

\* The items of `e` under the branch key `k` that have outlived their wait:
\* no task waits for the token and no invocation is about to delete the item.
Leftover(e, k) ==
    {it \in store[e] :
        /\ it.eventName = k
        /\ k # Default
        /\ ~TokenPending(it.taskToken)
        /\ \A h \in Handlers :
              ~(/\ corr[h].pc = "delete"
                /\ corr[h].event.entityId = e
                /\ corr[h].event.eventName = k)}

\* The step is the query of slot h resolving.
QueryStep(h) == corr[h].pc = "query" /\ corr'[h].mode # "-"

\* The execution of `e` waits in a sequential wait-state, and `ev` is the
\* event that state takes forward.
SoleWaitExpects(e, ev) ==
    /\ exec[e].status = "running"
    /\ exec[e].node \in WaitNodes
    /\ exec[e].br[exec[e].node] = "waiting"
    /\ ChoiceNext(exec[e].node, ev) \in WaitNodes \cup ParallelNodes

\* The step of a retry of the event a leftover item is named for: the scan
\* matches the item, sendTaskSuccess is called with its consumed token and
\* rejected, the invocation ends by that error short of the deleteItem; and
\* the step, whatever it is, neither removes nor changes a leftover item.
LeftoverStays ==
    /\ \A h \in Handlers :
          LET e == corr[h].event.entityId
              k == corr[h].event.eventName
          IN  /\ (QueryStep(h) /\ Leftover(e, k) # {})
                 => /\ corr'[h].mode = "parallel"
                    /\ corr'[h].pc = "signal"
                    /\ corr'[h].taskToken \in
                          {it.taskToken : it \in Leftover(e, k)}
              /\ (corr[h].pc = "signal" /\ CorrStep(h) /\ Leftover(e, k) # {})
                 => /\ corr'[h].pc = "failed"
                    /\ LastCallRejected(corr'[h], "signal")
                    /\ CallsOf(corr'[h], "delete") = <<>>
    /\ \A e \in Entities : \A k \in BranchKeys :
          Leftover(e, k) \subseteq store'[e]

\* The step of an invocation for the event a sole sequential wait-state
\* expects, a leftover item in the table: the event is handled in
\* parallel-wait mode, matches nothing and leads to stopExecution, which
\* leaves the execution aborted, its wait never resumed.
LeftoverFlipsMode ==
    \A h \in Handlers :
        LET e == corr[h].event.entityId
        IN  /\ (/\ QueryStep(h)
                /\ SoleWaitExpects(e, corr[h].event)
                /\ \E k \in BranchKeys : Leftover(e, k) # {})
               => /\ corr'[h].mode = "parallel"
                  /\ Unmatched(corr'[h])
                  /\ corr'[h].pc = "stop"
            /\ (/\ AbortStep(h)
                /\ SoleWaitExpects(e, corr[h].event))
               => /\ exec'[e].status = "aborted"
                  /\ exec'[e].node = exec[e].node

\* LeftoverFlipsMode for a Default item that carries an executionArn.
LeftoverFlipsModeGivenArn ==
    \A h \in Handlers :
        LET e == corr[h].event.entityId
        IN  /\ (/\ QueryStep(h)
                /\ SoleWaitExpects(e, corr[h].event)
                /\ \E k \in BranchKeys : Leftover(e, k) # {}
                /\ \A it \in DefaultItems(e) : it.executionArn # None)
               => /\ corr'[h].mode = "parallel"
                  /\ Unmatched(corr'[h])
                  /\ corr'[h].pc = "stop"
            /\ (/\ AbortStep(h)
                /\ SoleWaitExpects(e, corr[h].event))
               => /\ exec'[e].status = "aborted"
                  /\ exec'[e].node = exec[e].node

\* C39: a branch item that has outlived its wait stays for good, the retries
\* of its event ending in the engine's rejection short of the deleteItem; and
\* the event a sole Default-keyed wait-state expects then aborts the
\* execution instead of resuming it.
C39_LeftoverFlipsMode == [][LeftoverStays /\ LeftoverFlipsMode]_vars

\* C39 for a Default item that carries an executionArn: the one case C39
\* fails in is the Default item without one.
LeftoverStaysAndFlipsModeGivenArn ==
    [][LeftoverStays /\ LeftoverFlipsModeGivenArn]_vars

\* Car Published, which ReadyForSale waited for, has aborted the execution:
\* the item of a branch of InPreparation was still in the table.
LeftoverAborted ==
    \E h \in Handlers :
        LET e == corr[h].event.entityId
        IN  /\ corr[h].event.eventName = "Car Published"
            /\ corr[h].mode = "parallel"
            /\ corr[h].ret = "200 OK"
            /\ EndedInAbort(corr[h])
            /\ exec[e].status = "aborted"
            /\ exec[e].node = "ReadyForSale"
            /\ exec[e].br["ReadyForSale"] = "waiting"
            /\ \E k \in PreparationKeys : Leftover(e, k) # {}

\* The retry of a leftover item's event was rejected by the engine and the
\* item is still there.
LeftoverRetryRejected ==
    \E h \in Handlers :
        LET e == corr[h].event.entityId
        IN  /\ corr[h].mode = "parallel"
            /\ corr[h].pc = "failed"
            /\ corr[h].ret = "TaskTimedOut"
            /\ Leftover(e, corr[h].event.eventName) # {}
            /\ exec[e].node = "ReadyForSale"

\* The call the step adds to the log of the invocation in slot h.
NewCall(h) == corr'[h].calls[Len(corr'[h].calls)]

\* The step is one of the invocation in slot h in which it makes a call.
CallStep(h) == Len(corr'[h].calls) = Len(corr[h].calls) + 1

\* C40: a step of an invocation for entity A leaves the items and the
\* execution of every other entity as they were; its query reads the items
\* of A and no others; its sendTaskSuccess carries a token of an item read
\* under A, its stopExecution the executionArn of the Default item read under
\* A, which is A's execution; and its deleteItem removes an item of A keyed
\* by the event's name and nothing else.
C40_EntityIsolation ==
    [][\A h \in Handlers :
          CorrStep(h)
          => LET a == corr'[h].event.entityId
             IN  /\ \A b \in Entities \ {a} :
                       store'[b] = store[b] /\ exec'[b] = exec[b]
                 /\ QueryStep(h) => corr'[h].items = store[a]
                 /\ (CallStep(h) /\ NewCall(h).op = "query")
                    => NewCall(h).arg = a
                 /\ (CallStep(h) /\ NewCall(h).op = "signal")
                    => /\ NewCall(h).arg \in
                             {it.taskToken : it \in corr[h].items}
                       /\ NewCall(h).arg \in {TaskToken(a, n) : n \in 1..MaxTokens}
                 /\ (CallStep(h) /\ NewCall(h).op = "abort")
                    => /\ NewCall(h).arg \in
                             {it.executionArn :
                                 it \in {d \in corr[h].items : d.eventName = Default}}
                       /\ NewCall(h).arg = ExecutionArn(a)
                 /\ (CallStep(h) /\ NewCall(h).op = "delete")
                    => store'[a] = {it \in store[a] :
                                       it.eventName # corr[h].event.eventName}]_vars

\* An invocation for car-1 has resumed and deleted car-1's branch while an
\* invocation for car-2 was between its query and its call: car-2's items
\* and execution are as that invocation read them.
IsolatedEntities ==
    /\ corr["h1"].event.entityId = "car-1"
    /\ corr["h1"].ret = "200 OK"
    /\ Len(CallsOf(corr["h1"], "delete")) = 1
    /\ corr["h2"].event.entityId = "car-2"
    /\ corr["h2"].pc \in {"signal", "stop"}
    /\ corr["h2"].mode = "parallel"
    /\ corr["h2"].items = store["car-2"]
    /\ exec["car-2"].status = "running"
    /\ exec["car-2"].br["Clean"] = "waiting"
    /\ exec["car-1"].br["Clean"] = "done"

====
